---------------------------- MODULE Spec2Model ----------------------------
(***************************************************************************)
(* Model of the Minhas Palavras vocabulary app: the quiz answer matcher    *)
(* (learn.tsx), the story highlight indexer (read.tsx), the story word     *)
(* selection (gemini.ts), the backup import validation (backup.ts), the    *)
(* read screen with its saved story (read.tsx), the vocabulary store with  *)
(* its provider and the import into it (firebase.ts, VocabularyContext,    *)
(* settings.tsx), the listen mode and the quiz mode (learn.tsx).           *)
(*                                                                         *)
(* Strings are sequences of characters.  A character is written as a short *)
(* ASCII token:  "a~" is the precomposed letter U+00E3 (a with tilde),     *)
(* "A~" is U+00C3, "~" alone is the combining tilde U+0303, "\t" is a tab. *)
(***************************************************************************)
EXTENDS Integers, Sequences, FiniteSets, TLC

VARIABLES
    \* answer matcher (learn.tsx answersMatch call)
    userAnswer, correctAnswer, matchPc, matchResult,
    \* story highlighting (read.tsx): storyResult.story, storyResult.usedWords,
    \* the memoised pattern, the split loop and the rendered segments
    \* (storyResultProps: which of the two properties the object has)
    storyResultProps, story, usedWords, hlPc, highlightRegex, splitP, splitQ,
    parts, segments,
    \* story generation (gemini.ts generateStory): the words passed in, the
    \* shuffled copy, the selection, the call's position and its outcome
    \* (requests: the fetch calls issued)
    words, shuffled, selectedWords, genPc, genResult, genError, requests,
    \* backup import (backup.ts importFromJson): the picked file, the parsed
    \* data, the loop index, the call's position, its outcome and Date.now()
    impFile, impData, impIdx, impPc, impResult, impError, clock,
    \* read screen (read.tsx ReadScreen): state.words, the storyResult, the
    \* isGenerating and error states, lastStory.json, the mount effect's
    \* position and the content it read, the handleGenerateStory calls made
    stateWords, storyResult, isGenerating, error, savedFile, loadPc,
    loadContent, attempts,
    \* vocabulary store (firebase.ts, VocabularyContext, settings.tsx): the
    \* Firestore collection, the provider's state, the onSnapshot listener and
    \* whether a snapshot is due to it, the position of refreshWords and of
    \* handleImport / importWords, the documents get() returned, the
    \* isImporting state, the last alert, the other writes made, the
    \* documents a get() of getAllWords has read and not yet returned
    store, state, listener, snapshotDue, refreshPc, importPc, existingDocs,
    isImporting, alert, writes, fetchedDocs,
    \* listen mode (learn.tsx LearnScreen): the provider's state.words, whether
    \* the screen has rendered and the state.words of its first render, the
    \* mode, listenWord, listenPhase, isListening and countdown states, the
    \* running playNextListenWord calls, the utterances handed to Speech,
    \* timerRef (the call whose timer it holds), the interval countdownRef
    \* holds and the counts of the intervals it has lost
    vocabulary, mounted, mountWords, mode, listenWord, listenPhase,
    isListening, countdown, chains, speechQueue, timerRef, countdownRef,
    leakedIntervals,
    \* article normalisation (learn.tsx normalizeForComparison): the text
    \* passed, the call's position and the string returned
    normText, normPc, normResult,
    \* quiz mode (learn.tsx startQuiz, checkAnswer, nextWord): the quiz state;
    \* the answer text is userAnswer, the screen's mode is mode
    currentWord, showPortuguese, isAnswered, isCorrect

matchVars == <<userAnswer, correctAnswer, matchPc, matchResult>>
hlVars == <<storyResultProps, story, usedWords, hlPc, highlightRegex, splitP,
            splitQ, parts, segments>>
genVars == <<words, shuffled, selectedWords, genPc, genResult, genError,
             requests>>
impVars == <<impFile, impData, impIdx, impPc, impResult, impError, clock>>
readVars == <<stateWords, storyResult, isGenerating, error, savedFile, loadPc,
              loadContent, attempts>>
vocVars == <<store, state, listener, snapshotDue, refreshPc, importPc,
             existingDocs, isImporting, alert, writes, fetchedDocs>>
listenVars == <<vocabulary, mounted, mountWords, mode, listenWord,
                listenPhase, isListening, countdown, chains, speechQueue,
                timerRef, countdownRef, leakedIntervals>>
normVars == <<normText, normPc, normResult>>
quizVars == <<currentWord, showPortuguese, isAnswered, isCorrect>>
vars == <<matchVars, hlVars, genVars, impVars, readVars, vocVars, listenVars,
         normVars,
         quizVars>>

Null == "null"

\* What every component other than the matcher / the highlighting / the story
\* generation / the import holds.
matchOthers == <<hlVars, genVars, impVars, readVars, vocVars, listenVars,
    normVars, quizVars>>
hlOthers == <<matchVars, genVars, impVars, readVars, vocVars, listenVars,
    normVars, quizVars>>
genOthers == <<matchVars, hlVars, impVars, readVars, vocVars, listenVars,
    normVars, quizVars>>
impOthers == <<matchVars, hlVars, genVars, readVars, vocVars, listenVars,
    normVars, quizVars>>
readOthers == <<matchVars, hlVars, impVars, vocVars, listenVars,
    normVars, quizVars>>
vocOthers == <<matchVars, hlVars, genVars, readVars, listenVars,
    normVars, quizVars>>
listenOthers == <<matchVars, hlVars, genVars, impVars, readVars, vocVars,
    normVars, quizVars>>
normOthers == <<matchVars, hlVars, genVars, impVars, readVars, vocVars,
               listenVars, quizVars>>
quizOthers == <<correctAnswer, matchPc, matchResult, hlVars, genVars, impVars,
                readVars, vocVars, normVars, vocabulary, mounted, mountWords,
                listenWord, listenPhase, isListening, countdown, chains,
                speechQueue, timerRef, countdownRef, leakedIntervals>>

\* The components before they are started.
MatchIdle ==
    /\ userAnswer = <<>>
    /\ correctAnswer = <<>>
    /\ matchPc = "idle"
    /\ matchResult = FALSE

HlIdle ==
    /\ storyResultProps = {}
    /\ story = <<>>
    /\ usedWords = <<>>
    /\ hlPc = "idle"
    /\ highlightRegex = Null
    /\ splitP = 0
    /\ splitQ = 0
    /\ parts = <<>>
    /\ segments = <<>>

GenIdle ==
    /\ words = <<>>
    /\ shuffled = <<>>
    /\ selectedWords = <<>>
    /\ genPc = "idle"
    /\ genResult = Null
    /\ genError = Null
    /\ requests = 0

ReadIdle ==
    /\ stateWords = <<>>
    /\ storyResult = <<>>
    /\ isGenerating = FALSE
    /\ error = Null
    /\ savedFile = <<>>
    /\ loadPc = "idle"
    /\ loadContent = <<>>
    /\ attempts = 0

ImpIdle ==
    /\ impFile = Null
    /\ impData = <<>>
    /\ impIdx = 0
    /\ impPc = "idle"
    /\ impResult = Null
    /\ impError = Null
    /\ clock = 0

VocIdle ==
    /\ store = {}
    /\ state = Null
    /\ listener = "none"
    /\ snapshotDue = FALSE
    /\ refreshPc = "idle"
    /\ importPc = "idle"
    /\ existingDocs = {}
    /\ isImporting = FALSE
    /\ alert = Null
    /\ writes = 0
    /\ fetchedDocs = {}

ListenIdle ==
    /\ vocabulary = <<>>
    /\ mounted = FALSE
    /\ mountWords = <<>>
    /\ mode = "select"
    /\ listenWord = <<>>
    /\ listenPhase = "portuguese"
    /\ isListening = FALSE
    /\ countdown = 0
    /\ chains = <<>>
    /\ speechQueue = <<>>
    /\ timerRef = "none"
    /\ countdownRef = Null
    /\ leakedIntervals = {}

QuizIdle ==
    /\ currentWord = <<>>
    /\ showPortuguese = TRUE
    /\ isAnswered = FALSE
    /\ isCorrect = FALSE

NormIdle ==
    /\ normText = <<>>
    /\ normPc = "idle"
    /\ normResult = <<>>


-----------------------------------------------------------------------------
(* Generic string helpers                                                  *)

\* All sequences over S of length at most n.
StrUpTo(S, n) == UNION {[1..k -> S] : k \in 0..n}

Whitespace == {" ", "\t"}

\* String.prototype.trim: drop leading and trailing whitespace.
RECURSIVE TrimStart(_)
TrimStart(s) ==
    IF s # <<>> /\ Head(s) \in Whitespace THEN TrimStart(Tail(s)) ELSE s

RECURSIVE TrimEnd(_)
TrimEnd(s) ==
    IF s # <<>> /\ s[Len(s)] \in Whitespace
    THEN TrimEnd(SubSeq(s, 1, Len(s) - 1))
    ELSE s

trim(s) == TrimEnd(TrimStart(s))

\* String.prototype.toLowerCase, on the characters of the model.
LowerChar(ch) ==
    CASE ch = "A"  -> "a"
      [] ch = "A~" -> "a~"
      [] ch = "L"  -> "l"
      [] ch = "B"  -> "b"
      [] OTHER     -> ch

RECURSIVE toLowerCase(_)
toLowerCase(s) ==
    IF s = <<>> THEN <<>> ELSE <<LowerChar(Head(s))>> \o toLowerCase(Tail(s))

\* s begins with the literal characters of p.
StartsWith(s, p) == Len(s) >= Len(p) /\ SubSeq(s, 1, Len(p)) = p

DropFirst(s, n) == SubSeq(s, n + 1, Len(s))

\* Mutant: the correct answer is not split, it is the only variant.
splitSlashWhole(s, cur) == <<cur \o s>>

\* String.prototype.split('/'): the pieces between the slashes, "" included.
RECURSIVE splitSlash(_, _)
splitSlash(s, cur) ==
    IF s = <<>> THEN <<cur>>
    ELSE IF Head(s) = "/" THEN <<cur>> \o splitSlash(Tail(s), <<>>)
    ELSE splitSlash(Tail(s), Append(cur, Head(s)))

-----------------------------------------------------------------------------
(* learn.tsx: removeAccents                                                *)

\* The combining marks U+0300..U+036F that occur in the model.
CombiningMarks == {"~"}

\* Canonical decomposition of one character.
DecomposeChar(ch) ==
    CASE ch = "a~" -> <<"a", "~">>
      [] ch = "A~" -> <<"A", "~">>
      [] OTHER     -> <<ch>>

RECURSIVE normalizeNFD(_)
normalizeNFD(s) ==
    IF s = <<>> THEN <<>> ELSE DecomposeChar(Head(s)) \o normalizeNFD(Tail(s))

\* .replace(/[\u0300-\u036f]/g, '')
stripCombining(s) == SelectSeq(s, LAMBDA ch : ch \notin CombiningMarks)

\* The entries of accentMap for the characters of the model.
accentMap(ch) ==
    CASE ch = "a~" -> "a"
      [] ch = "A~" -> "A"
      [] OTHER     -> ch

\* The loop over accentMap: every mapped character replaced by its base.
RECURSIVE replaceAccented(_)
replaceAccented(s) ==
    IF s = <<>> THEN <<>> ELSE <<accentMap(Head(s))>> \o replaceAccented(Tail(s))

\* Mutant: no folding at all (neither decomposition nor the accent map).
removeAccentsNoFold(text) == text

removeAccents(text) == replaceAccented(stripCombining(normalizeNFD(text)))

-----------------------------------------------------------------------------
(* learn.tsx: ARTICLES and normalizeForComparison                          *)

ARTICLES == <<
    <<"o">>, <<"a">>, <<"o", "s">>, <<"a", "s">>, <<"u", "m">>,
    <<"u", "m", "a">>, <<"u", "n", "s">>, <<"u", "m", "a", "s">>,
    <<"l", "e">>, <<"l", "a">>, <<"l", "e", "s">>, <<"l", "'">>,
    <<"u", "n">>, <<"u", "n", "e">>, <<"d", "e", "s">>, <<"d", "u">>,
    <<"d", "e", " ", "l", "a">>, <<"d", "e", " ", "l", "'">> >>

\* Array.prototype.sort((a, b) => b.length - a.length) on a copy: a stable
\* sort, longest first.  The entries of each length keep their order.
MaxLength(list) ==
    IF list = <<>> THEN 0
    ELSE CHOOSE n \in {Len(list[i]) : i \in 1..Len(list)} :
            \A i \in 1..Len(list) : Len(list[i]) <= n

RECURSIVE LongestFirstFrom(_, _)
LongestFirstFrom(list, n) ==
    IF n < 0 THEN <<>>
    ELSE SelectSeq(list, LAMBDA x : Len(x) = n) \o LongestFirstFrom(list, n - 1)

SortLongestFirst(list) == LongestFirstFrom(list, MaxLength(list))

ARTICLESNoCompound == <<
    <<"o">>, <<"a">>, <<"o", "s">>, <<"a", "s">>, <<"u", "m">>,
    <<"u", "m", "a">>, <<"u", "n", "s">>, <<"u", "m", "a", "s">>,
    <<"l", "e">>, <<"l", "a">>, <<"l", "e", "s">>, <<"l", "'">>,
    <<"u", "n">>, <<"u", "n", "e">>, <<"d", "e", "s">>, <<"d", "u">> >>

\* Mutant: the loop runs over a list without "de la" and "de l'".
sortedArticlesNoCompound == SortLongestFirst(ARTICLESNoCompound)

sortedArticles == SortLongestFirst(ARTICLES)

\* normalized.replace(new RegExp(`^${article}\\s+`, 'i'), ''): the article at
\* the start, followed by one or more whitespace characters, all removed.
replaceArticleSpace(normalized, article) ==
    IF /\ StartsWith(toLowerCase(normalized), article)
       /\ Len(normalized) > Len(article)
       /\ normalized[Len(article) + 1] \in Whitespace
    THEN TrimStart(DropFirst(normalized, Len(article)))
    ELSE normalized

\* normalized.replace(new RegExp(`^${article}$`, 'i'), ''): the article alone.
replaceArticleAlone(normalized, article) ==
    IF toLowerCase(normalized) = article THEN <<>> ELSE normalized

\* One pass of the for loop body: both patterns tried for one article.
replaceArticle(normalized, article) ==
    replaceArticleAlone(replaceArticleSpace(normalized, article), article)

\* Mutant: the loop stops at the first article it removes.
RECURSIVE stripArticlesFirstOnly(_, _, _)
stripArticlesFirstOnly(normalized, articles, i) ==
    IF i > Len(articles) THEN normalized
    ELSE LET replaced == replaceArticle(normalized, articles[i])
         IN  IF replaced # normalized
             THEN replaced
             ELSE stripArticlesFirstOnly(replaced, articles, i + 1)

\* The for loop over sortedArticles, from the i-th article on.  (The length
\* test is always true: it makes TLC compute each pass before the next.)
RECURSIVE stripArticles(_, _, _)
stripArticles(normalized, articles, i) ==
    IF i > Len(articles) THEN normalized
    ELSE LET replaced == replaceArticle(normalized, articles[i])
         IN  IF Len(replaced) >= 0
             THEN stripArticles(replaced, articles, i + 1)
             ELSE replaced

\* Mutant: the final pass for the elision form is missing.
replaceElisionMissing(normalized) == normalized

\* normalized.replace(/^l'/i, '')
replaceElision(normalized) ==
    IF StartsWith(toLowerCase(normalized), <<"l", "'">>)
    THEN DropFirst(normalized, 2)
    ELSE normalized

\* Mutant: the text is trimmed but not lower-cased before the articles go.
normalizeNoLowerCase(text) ==
    trim(replaceElision(stripArticles(trim(text), sortedArticles, 1)))

normalizeForComparison(text) ==
    trim(replaceElision(stripArticles(toLowerCase(trim(text)), sortedArticles, 1)))

-----------------------------------------------------------------------------
(* learn.tsx: singleAnswerMatches and answersMatch                         *)

\* The four comparisons of singleAnswerMatches, in the order it tries them.
\* Mutant: the exact comparison accepts any answer the valid answer starts with.
exactMatchPrefix(user, correct) ==
    StartsWith(toLowerCase(trim(correct)), toLowerCase(trim(user)))

exactMatch(user, correct) ==
    toLowerCase(trim(user)) = toLowerCase(trim(correct))

accentMatch(user, correct) ==
    removeAccents(toLowerCase(trim(user)))
        = removeAccents(toLowerCase(trim(correct)))

articleMatch(user, correct) ==
    normalizeForComparison(user) = normalizeForComparison(correct)

articleAccentMatch(user, correct) ==
    removeAccents(normalizeForComparison(user))
        = removeAccents(normalizeForComparison(correct))

singleAnswerMatches(user, correct) ==
    \/ exactMatch(user, correct)
    \/ accentMatch(user, correct)
    \/ articleMatch(user, correct)
    \/ articleAccentMatch(user, correct)

\* const validAnswers = correctAnswer.split('/').map(a => a.trim())
RECURSIVE trimAll(_)
trimAll(answers) ==
    IF answers = <<>> THEN <<>>
    ELSE <<trim(Head(answers))>> \o trimAll(Tail(answers))

validAnswers(correct) == trimAll(splitSlash(correct, <<>>))

\* Mutant: the loop returns the verdict of the first valid answer.
matchLoopFirstOnly(user, valid) ==
    valid # <<>> /\ singleAnswerMatches(user, Head(valid))

\* The for loop of answersMatch: return true at the first valid answer that
\* matches, false when the list is exhausted.
RECURSIVE matchLoop(_, _)
matchLoop(user, valid) ==
    IF valid = <<>> THEN FALSE
    ELSE IF singleAnswerMatches(user, Head(valid)) THEN TRUE
    ELSE matchLoop(user, Tail(valid))

answersMatch(user, correct) == matchLoop(user, validAnswers(correct))

-----------------------------------------------------------------------------
(* read.tsx: highlightPattern, findMatchedWord, renderStoryWithHighlights  *)

\* The characters [.*+?^${}()|[\]\\] that the escape prefixes with a backslash.
RegexSpecials ==
    {".", "*", "+", "?", "^", "$", "{", "}", "(", ")", "|", "[", "]", "\\"}

\* w.portuguese.replace(/[.*+?^${}()|[\]\\]/g, '\\$&')
RECURSIVE escapeRegex(_)
escapeRegex(text) ==
    IF text = <<>> THEN <<>>
    ELSE (IF Head(text) \in RegexSpecials
          THEN <<"\\", Head(text)>>
          ELSE <<Head(text)>>) \o escapeRegex(Tail(text))

\* The regular expression atoms of one alternative of the pattern source: a
\* backslash makes the next character literal, a bare dot matches any
\* character, every other character of the model is literal.
RECURSIVE parseAlternative(_)
parseAlternative(source) ==
    IF source = <<>> THEN <<>>
    ELSE IF Head(source) = "\\" /\ Len(source) >= 2
         THEN <<[kind |-> "lit", ch |-> source[2]]>>
                 \o parseAlternative(DropFirst(source, 2))
    ELSE IF Head(source) = "."
         THEN <<[kind |-> "any", ch |-> "."]>> \o parseAlternative(Tail(source))
    ELSE <<[kind |-> "lit", ch |-> Head(source)]>>
             \o parseAlternative(Tail(source))

\* Mutant: the pattern takes the words in usedWords order.
sortedWordsUnsorted(ws) == ws

\* [...usedWords].sort((a, b) => b.portuguese.length - a.portuguese.length):
\* a stable sort of a copy, longest portuguese first.
RECURSIVE wordsOfLengthDown(_, _)
wordsOfLengthDown(ws, n) ==
    IF n < 0 THEN <<>>
    ELSE SelectSeq(ws, LAMBDA w : Len(w.portuguese) = n)
            \o wordsOfLengthDown(ws, n - 1)

sortedWords(ws) ==
    wordsOfLengthDown(ws,
        IF ws = <<>> THEN 0
        ELSE CHOOSE n \in {Len(ws[i].portuguese) : i \in 1..Len(ws)} :
                \A i \in 1..Len(ws) : Len(ws[i].portuguese) <= n)

\* sortedWords.map(w => escape(w.portuguese)), then patterns.join('|') inside
\* one capturing group: the alternatives in order (one empty alternative
\* when nothing is joined).
RECURSIVE escapeAll(_)
escapeAll(ws) ==
    IF ws = <<>> THEN <<>>
    ELSE <<parseAlternative(escapeRegex(Head(ws).portuguese))>>
            \o escapeAll(Tail(ws))

regexAlternatives(ws) ==
    IF ws = <<>> THEN << <<>> >> ELSE escapeAll(ws)

\* Mutant: the pattern is built even when there are no words.
highlightPatternUnguarded(ws) == regexAlternatives(sortedWords(ws))

\* const highlightPattern = useMemo(...)
highlightPattern(ws) ==
    IF Len(ws) = 0 THEN Null ELSE regexAlternatives(sortedWords(ws))

\* One atom against one character, under the i flag.
atomMatches(atom, ch) ==
    atom.kind = "any" \/ LowerChar(atom.ch) = LowerChar(ch)

alternativeMatchesAt(atoms, text, q) ==
    /\ q + Len(atoms) <= Len(text)
    /\ \A k \in 1..Len(atoms) : atomMatches(atoms[k], text[q + k])

\* The sticky match the split makes at index q (0-based): the end index of
\* the first alternative, in order, that matches there, or -1.
RECURSIVE matchEnd(_, _, _)
matchEnd(alternatives, text, q) ==
    IF alternatives = <<>> THEN -1
    ELSE IF alternativeMatchesAt(Head(alternatives), text, q)
         THEN q + Len(Head(alternatives))
    ELSE matchEnd(Tail(alternatives), text, q)

\* Mutant: a pattern without the capturing group adds nothing to the pieces.
splitCapturesNone(text, q, e) == <<>>

\* The captures the split pushes after each piece: group 1, the matched text.
splitCaptures(text, q, e) == <<SubSeq(text, q + 1, e)>>

\* Mutant: the lookup compares the texts as they are, case included.
findMatchedWordCaseSensitive(ws, text) ==
    LET hits == {i \in 1..Len(ws) : ws[i].portuguese = text}
    IN  IF hits = {} THEN 0
        ELSE CHOOSE i \in hits : \A j \in hits : i <= j

\* storyResult.usedWords.find(w => w.portuguese.toLowerCase() ===
\* text.toLowerCase()): the index of the first such word, 0 for undefined.
findMatchedWord(ws, text) ==
    LET hits == {i \in 1..Len(ws) :
                    toLowerCase(ws[i].portuguese) = toLowerCase(text)}
    IN  IF hits = {} THEN 0
        ELSE CHOOSE i \in hits : \A j \in hits : i <= j

\* parts.map(...): a highlighted Text for a piece that is a used word, a plain
\* Text for any other piece.
RECURSIVE renderParts(_, _)
renderParts(ws, pieces) ==
    IF pieces = <<>> THEN <<>>
    ELSE LET hit == findMatchedWord(ws, Head(pieces))
         IN  << IF hit # 0
                THEN [kind |-> "match", text |-> Head(pieces),
                      french |-> ws[hit].french]
                ELSE [kind |-> "plain", text |-> Head(pieces),
                      french |-> Null] >>
             \o renderParts(ws, Tail(pieces))

-----------------------------------------------------------------------------
(* The read screen rendering one storyResult                               *)

MaxStoryLen == 3
MaxUsedWords == 3

StoryAlphabet == {"a", "b", "B", "."}

\* The vocabulary the used words are drawn from.
WordPool == {
    [portuguese |-> <<"a">>, french |-> "un"],
    [portuguese |-> <<"a", "b">>, french |-> "deux"],
    [portuguese |-> <<"a", "B">>, french |-> "trois"],
    [portuguese |-> <<"a", "b", "b">>, french |-> "quatre"],
    [portuguese |-> <<"b">>, french |-> "cinq"],
    [portuguese |-> <<".">>, french |-> "point"] }

\* A used word of a saved file that has no portuguese property.
WordWithoutPortuguese == [french |-> "sans"]

\* Lists of distinct used words, in any order: words of the pool, and in a
\* malformed saved file also the word without portuguese.
UsedWordListsOf(pool) ==
    {ws \in UNION {[1..k -> pool] : k \in 0..MaxUsedWords} :
        \A i, j \in 1..Len(ws) : i # j => ws[i] # ws[j]}

\* The used words of a well-formed storyResult.
UsedWordLists == UsedWordListsOf(WordPool)

\* The storyResult values that reach the rendering: the well-formed ones
\* (from generateStory, or saved by saveStory), and what JSON.parse gives for
\* a malformed lastStory.json: an object without story, without usedWords,
\* or with used words that lack portuguese.
StoryResultShapes == SUBSET {"story", "usedWords"}

StoriesOf(props) ==
    IF "story" \in props THEN StrUpTo(StoryAlphabet, MaxStoryLen) ELSE {<<>>}

UsedWordsOf(props) ==
    IF "usedWords" \in props
    THEN UsedWordListsOf(WordPool \cup {WordWithoutPortuguese})
    ELSE {<<>>}

HlInit ==
    /\ storyResultProps \in StoryResultShapes
    /\ story \in StoriesOf(storyResultProps)
    /\ usedWords \in UsedWordsOf(storyResultProps)
    /\ hlPc = "memo"
    /\ highlightRegex = Null
    /\ splitP = 0
    /\ splitQ = 0
    /\ parts = <<>>
    /\ segments = <<>>
    /\ MatchIdle /\ GenIdle /\ ImpIdle /\ ReadIdle /\ VocIdle /\ ListenIdle
    /\ NormIdle /\ QuizIdle

\* storyResult?.usedWords.length reads length of undefined when the object
\* has no usedWords; b.portuguese.length and w.portuguese.replace read a
\* property of undefined when a used word has no portuguese.
patternThrows(props, ws) ==
    \/ "usedWords" \notin props
    \/ \E i \in 1..Len(ws) : "portuguese" \notin DOMAIN ws[i]

\* useMemo: the pattern for the current usedWords, or the TypeError.
HlBuildPattern ==
    /\ hlPc = "memo"
    /\ IF patternThrows(storyResultProps, usedWords)
       THEN /\ hlPc' = "threw"
            /\ UNCHANGED highlightRegex
       ELSE /\ highlightRegex' = highlightPattern(usedWords)
            /\ hlPc' = "render"
    /\ UNCHANGED <<storyResultProps, story, usedWords, splitP, splitQ, parts,
                   segments>>
    /\ UNCHANGED hlOthers

\* if (!storyResult?.story || !highlightPattern) return the story as one Text
HlRenderPlain ==
    /\ hlPc = "render"
    /\ "story" \notin storyResultProps \/ story = <<>> \/ highlightRegex = Null
    /\ segments' = <<[kind |-> "plain", text |-> story, french |-> Null]>>
    /\ hlPc' = "rendered"
    /\ UNCHANGED <<storyResultProps, story, usedWords, highlightRegex, splitP, splitQ, parts>>
    /\ UNCHANGED hlOthers

\* storyResult.story.split(highlightPattern): the split loop starts at 0.
HlSplitStart ==
    /\ hlPc = "render"
    /\ "story" \in storyResultProps /\ story # <<>> /\ highlightRegex # Null
    /\ splitP' = 0
    /\ splitQ' = 0
    /\ parts' = <<>>
    /\ hlPc' = "split"
    /\ UNCHANGED <<storyResultProps, story, usedWords, highlightRegex, segments>>
    /\ UNCHANGED hlOthers

\* One round of the split loop: try the pattern at q; on a match that ends
\* beyond p push the text before it and its captures and go on behind it,
\* otherwise advance q by one.
HlSplitStep ==
    /\ hlPc = "split"
    /\ splitQ < Len(story)
    /\ LET e == matchEnd(highlightRegex, story, splitQ)
       IN  IF e = -1 \/ e = splitP
           THEN /\ splitQ' = splitQ + 1
                /\ UNCHANGED <<splitP, parts>>
           ELSE /\ parts' = parts \o <<SubSeq(story, splitP + 1, splitQ)>>
                                  \o splitCaptures(story, splitQ, e)
                /\ splitP' = e
                /\ splitQ' = e
    /\ UNCHANGED <<storyResultProps, story, usedWords, hlPc, highlightRegex, segments>>
    /\ UNCHANGED hlOthers

\* The loop is over: the rest of the story is the last piece.
HlSplitEnd ==
    /\ hlPc = "split"
    /\ splitQ >= Len(story)
    /\ parts' = Append(parts, SubSeq(story, splitP + 1, Len(story)))
    /\ hlPc' = "map"
    /\ UNCHANGED <<storyResultProps, story, usedWords, highlightRegex, splitP, splitQ, segments>>
    /\ UNCHANGED hlOthers

\* parts.map((part, index) => ...)
HlMapParts ==
    /\ hlPc = "map"
    /\ segments' = renderParts(usedWords, parts)
    /\ hlPc' = "rendered"
    /\ UNCHANGED <<storyResultProps, story, usedWords, highlightRegex, splitP, splitQ, parts>>
    /\ UNCHANGED hlOthers

HlNext ==
    \/ HlBuildPattern
    \/ HlRenderPlain
    \/ HlSplitStart
    \/ HlSplitStep
    \/ HlSplitEnd
    \/ HlMapParts

SpecHighlight == HlInit /\ [][HlNext]_vars

-----------------------------------------------------------------------------
(* gemini.ts: generateStory                                                *)

\* The key constant of the build: a configured key, not the placeholder.
GEMINI_API_KEY == "configured-key"

Min(a, b) == IF a < b THEN a ELSE b
Max(a, b) == IF a > b THEN a ELSE b

\* Math.floor(n * 0.3)
floorThreeTenths(n) == (3 * n) \div 10

\* Mutant: Math.round(n * 0.3), the half rounded up.
roundThreeTenths(n) == (3 * n + 5) \div 10

\* Mutant: the count taken with Math.round.
selectionCountRounded(n) == Min(25, Max(15, roundThreeTenths(n)))

\* Math.min(25, Math.max(15, Math.floor(words.length * 0.3)))
selectionCount(n) == Min(25, Max(15, floorThreeTenths(n)))

\* list.slice(0, end): the elements before index end, all of them when the
\* list is shorter.
sliceFromStart(list, end) == SubSeq(list, 1, Min(Max(end, 0), Len(list)))

rotate(list, r) ==
    SubSeq(list, r + 1, Len(list)) \o SubSeq(list, 1, r)

reverse(list) == [i \in 1..Len(list) |-> list[Len(list) + 1 - i]]

MaxVocabulary == 100
MaxShift == 2
MaxTextLen == 2

\* [...words].sort(() => Math.random() - 0.5): a copy in an order the random
\* comparator decides; the orders here are the rotations by up to MaxShift,
\* each also reversed.
shuffles(list) ==
    LET rotations == {rotate(list, r) :
                        r \in 0..Min(MaxShift, Max(Len(list) - 1, 0))}
    IN  rotations \cup {reverse(l) : l \in rotations}

\* text.replace(/pattern/g, replacement) for a literal pattern, left to right.
RECURSIVE replaceAll(_, _, _)
replaceAll(text, pattern, replacement) ==
    IF Len(text) < Len(pattern) THEN text
    ELSE IF StartsWith(text, pattern)
         THEN replacement
                \o replaceAll(DropFirst(text, Len(pattern)), pattern, replacement)
    ELSE <<Head(text)>> \o replaceAll(Tail(text), pattern, replacement)

\* The removal of the markdown markers from the generated text.
cleanedText(generatedText) ==
    replaceAll(
        replaceAll(
            replaceAll(
                replaceAll(generatedText, <<"*", "*">>, <<>>),
                <<"*">>, <<>>),
            <<"_", "_">>, <<>>),
        <<"_">>, <<" ">>)

TextAlphabet == {"a", "*", "_", " "}

\* What the request can come back with: a rejected fetch, a response that is
\* not ok, an ok response without a candidate text, an ok response with one.
FetchOutcomes ==
    {[kind |-> "rejected", text |-> <<>>],
     [kind |-> "notOk", text |-> <<>>],
     [kind |-> "noText", text |-> <<>>]}
    \cup {[kind |-> "text", text |-> t] : t \in StrUpTo(TextAlphabet, MaxTextLen)}

DuplicateEvery == 7

\* The k-th distinct portuguese text: a, b, aa, ab, ba, ...
RECURSIVE portugueseText(_)
portugueseText(k) ==
    IF k = 0 THEN <<>>
    ELSE portugueseText((k - 1) \div 2)
            \o <<IF k % 2 = 1 THEN "a" ELSE "b">>

\* The { portuguese, french } object of the k-th distinct word.
wordObject(k) == [portuguese |-> portugueseText(k), french |-> ToString(k)]

\* The word lists passed to generateStory: n words, all distinct (period n)
\* or repeating after DuplicateEvery words.
wordList(n, period) ==
    [i \in 1..n |-> wordObject(((i - 1) % period) + 1)]

WordLists(sizes) ==
    {wordList(n, n + 1) : n \in sizes}
    \cup {wordList(n, DuplicateEvery) : n \in sizes}

\* Mutant: the sort is applied to words itself, which ends up shuffled.
wordsShuffledInPlace(list, sortedCopy) == sortedCopy

\* [...words].sort(...) sorts a copy: what words holds afterwards.
wordsAfterShuffle(list, sortedCopy) == list

GenInit ==
    /\ words \in WordLists(0..MaxVocabulary)
    /\ shuffled = <<>>
    /\ selectedWords = <<>>
    /\ genPc = "start"
    /\ genResult = Null
    /\ genError = Null
    /\ requests = 0
    /\ MatchIdle /\ HlIdle /\ ImpIdle /\ ReadIdle /\ VocIdle /\ ListenIdle
    /\ NormIdle /\ QuizIdle

\* The synchronous head of generateStory: the key check, the shuffle of a
\* copy, the slice and the fetch call.
GenSelectWords ==
    /\ genPc = "start"
    /\ IF GEMINI_API_KEY = "YOUR_GEMINI_API_KEY"
       THEN /\ genPc' = "threw"
            /\ genError' = "Please configure your Gemini API key"
            /\ UNCHANGED <<words, shuffled, selectedWords, requests>>
       ELSE /\ shuffled' \in shuffles(words)
            /\ words' = wordsAfterShuffle(words, shuffled')
            /\ selectedWords' =
                    sliceFromStart(shuffled', selectionCount(Len(words)))
            /\ requests' = requests + 1
            /\ genPc' = "fetch"
            /\ UNCHANGED genError
    /\ UNCHANGED genResult
    /\ UNCHANGED genOthers

\* await fetch(...) rejects: the catch rethrows with the error's message.
GenFetchRejected ==
    /\ genPc = "fetch"
    /\ genPc' = "threw"
    /\ genError' \in {"Network request failed", "Failed to generate story"}
    /\ UNCHANGED <<words, shuffled, selectedWords, genResult, requests>>
    /\ UNCHANGED genOthers

\* if (!response.ok) throw
GenResponseNotOk ==
    /\ genPc = "fetch"
    /\ genPc' = "threw"
    /\ genError' = "Gemini API error"
    /\ UNCHANGED <<words, shuffled, selectedWords, genResult, requests>>
    /\ UNCHANGED genOthers

\* An ok response: no candidate text, or a text that is empty once trimmed,
\* throws; any other text is cleaned and returned with the selection.
GenResponseOk ==
    /\ genPc = "fetch"
    /\ \E outcome \in {o \in FetchOutcomes : o.kind \in {"noText", "text"}} :
          LET generatedText == trim(outcome.text)
          IN  IF outcome.kind = "noText" \/ generatedText = <<>>
              THEN /\ genPc' = "threw"
                   /\ genError' = "No response from Gemini"
                   /\ UNCHANGED genResult
              ELSE /\ genPc' = "returned"
                   /\ genResult' = [story |-> cleanedText(generatedText),
                                    usedWords |-> selectedWords]
                   /\ UNCHANGED genError
    /\ UNCHANGED <<words, shuffled, selectedWords, requests>>
    /\ UNCHANGED genOthers

GenNext ==
    \/ GenSelectWords
    \/ GenFetchRejected
    \/ GenResponseNotOk
    \/ GenResponseOk

SpecStory == GenInit /\ [][GenNext]_vars

-----------------------------------------------------------------------------
(* backup.ts: importFromJson                                               *)

\* A property the JSON object does not have.
Missing == "<missing>"

\* !value for a property that is missing or a string.
falsyText(value) == value = Missing \/ value = ""

\* !value for a property that is missing or a number.
falsyTime(t) == ~t.defined \/ t.value = 0

NoTime == [defined |-> FALSE, value |-> 0]
Time(v) == [defined |-> TRUE, value |-> v]
NoExamples == [isArray |-> FALSE, items |-> <<>>]
Examples(items) == [isArray |-> TRUE, items |-> items]

\* Mutant: the check of a word without the french test.
invalidWordNoFrench(word) == falsyText(word.id) \/ falsyText(word.portuguese)

\* !word.id || !word.portuguese || !word.french
invalidWord(word) ==
    falsyText(word.id) \/ falsyText(word.portuguese) \/ falsyText(word.french)

\* The body of the loop after the check: examples becomes [] unless it is
\* an array, a falsy createdAt / updatedAt becomes the Date.now() read for it.
repairWord(word, nowCreated, nowUpdated) ==
    [word EXCEPT
        !.examples = IF word.examples.isArray THEN @ ELSE Examples(<<>>),
        !.createdAt = IF falsyTime(word.createdAt) THEN Time(nowCreated) ELSE @,
        !.updatedAt = IF falsyTime(word.updatedAt) THEN Time(nowUpdated) ELSE @]

MaxImportWords == 2
MaxClock == 8

FirstClock == 7
SavedTime == 5

TextValues(value) == {Missing, "", value}
TimeValues == {NoTime, Time(0), Time(SavedTime)}
ExampleValues == {NoExamples, Examples(<<>>), Examples(<<"ex">>)}

\* The word objects of a backup file: every combination of missing, empty and
\* present id, portuguese and french on a word that is otherwise complete,
\* and every combination of examples and timestamps on a word whose three
\* texts are present.
ImportEntries ==
    {[id |-> i, portuguese |-> pt, french |-> fr,
      examples |-> Examples(<<"ex">>),
      createdAt |-> Time(SavedTime), updatedAt |-> Time(SavedTime)] :
        i \in TextValues("w1"), pt \in TextValues("casa"),
        fr \in TextValues("maison")}
    \cup
    {[id |-> "w1", portuguese |-> "casa", french |-> "maison",
      examples |-> ex, createdAt |-> c, updatedAt |-> u] :
        ex \in ExampleValues, c \in TimeValues, u \in TimeValues}

\* The files the picker can hand over: text that is not JSON, the JSON value
\* null, an object without words (or with a falsy one), an object whose words
\* is not an array, an object whose words is an array of word objects.
ImportFiles ==
    {[kind |-> k, words |-> <<>>] :
        k \in {"notJson", "jsonNull", "wordsMissing", "wordsNotArray"}}
    \cup {[kind |-> "wordsArray", words |-> ws] :
            ws \in StrUpTo(ImportEntries, MaxImportWords)}

ImpInit ==
    /\ impFile \in ImportFiles
    /\ impData = <<>>
    /\ impIdx = 0
    /\ impPc = "pick"
    /\ impResult = Null
    /\ impError = Null
    /\ clock = FirstClock
    /\ MatchIdle /\ HlIdle /\ GenIdle /\ ReadIdle /\ VocIdle /\ ListenIdle
    /\ NormIdle /\ QuizIdle

\* if (result.canceled) throw new Error('Import cancelled')
ImpPickCancelled ==
    /\ impPc = "pick"
    /\ impPc' = "threw"
    /\ impError' = "Import cancelled"
    /\ UNCHANGED <<impFile, impData, impIdx, impResult, clock>>
    /\ UNCHANGED impOthers

\* A file was picked: await file.text()
ImpPickFile ==
    /\ impPc = "pick"
    /\ impPc' = "read"
    /\ UNCHANGED <<impFile, impData, impIdx, impResult, impError, clock>>
    /\ UNCHANGED impOthers

\* file.text() rejects.
ImpReadFails ==
    /\ impPc = "read"
    /\ impPc' = "threw"
    /\ impError' = "Could not read file"
    /\ UNCHANGED <<impFile, impData, impIdx, impResult, clock>>
    /\ UNCHANGED impOthers

\* JSON.parse(jsonString) and the check of data.words.
ImpParse ==
    /\ impPc = "read"
    /\ IF impFile.kind = "notJson"
       THEN /\ impPc' = "threw"
            /\ impError' = "JSON Parse error"
            /\ UNCHANGED <<impData, impIdx>>
       ELSE IF impFile.kind = "jsonNull"
       THEN /\ impPc' = "threw"
            /\ impError' = "TypeError"
            /\ UNCHANGED <<impData, impIdx>>
       ELSE IF impFile.kind \in {"wordsMissing", "wordsNotArray"}
       THEN /\ impPc' = "threw"
            /\ impError' = "Invalid backup file format"
            /\ UNCHANGED <<impData, impIdx>>
       ELSE /\ impData' = impFile.words
            /\ impIdx' = 1
            /\ impPc' = "loop"
            /\ UNCHANGED impError
    /\ UNCHANGED <<impFile, impResult, clock>>
    /\ UNCHANGED impOthers

\* One round of for (const word of data.words): throw on an invalid word,
\* else repair it in place; the clock may advance between the two reads of
\* Date.now().
ImpValidateWord ==
    /\ impPc = "loop"
    /\ impIdx <= Len(impData)
    /\ IF invalidWord(impData[impIdx])
       THEN /\ impPc' = "threw"
            /\ impError' = "Invalid word data in backup file"
            /\ UNCHANGED <<impData, impIdx, clock>>
       ELSE /\ \E later \in clock..Min(clock + 1, MaxClock) :
                 /\ impData' = [impData EXCEPT ![impIdx] =
                                    repairWord(impData[impIdx], clock, later)]
                 /\ clock' = later
            /\ impIdx' = impIdx + 1
            /\ UNCHANGED <<impPc, impError>>
    /\ UNCHANGED <<impFile, impResult>>
    /\ UNCHANGED impOthers

\* return data.words
ImpReturn ==
    /\ impPc = "loop"
    /\ impIdx > Len(impData)
    /\ impResult' = impData
    /\ impPc' = "returned"
    /\ UNCHANGED <<impFile, impData, impIdx, impError, clock>>
    /\ UNCHANGED impOthers

\* Time passes between two reads of Date.now().
ImpTick ==
    /\ impPc \in {"pick", "read", "loop"}
    /\ clock < MaxClock
    /\ clock' = clock + 1
    /\ UNCHANGED <<impFile, impData, impIdx, impPc, impResult, impError>>
    /\ UNCHANGED impOthers

ImpNext ==
    \/ ImpPickCancelled
    \/ ImpPickFile
    \/ ImpReadFails
    \/ ImpParse
    \/ ImpValidateWord
    \/ ImpReturn
    \/ ImpTick

SpecImport == ImpInit /\ [][ImpNext]_vars

-----------------------------------------------------------------------------
(* A generated story on the read screen: generateStory, then the rendering *)

\* setStoryResult(result): the next render highlights the returned story.
ShowStory ==
    /\ genPc = "returned"
    /\ hlPc = "idle"
    /\ storyResultProps' = {"story", "usedWords"}
    /\ story' = genResult.story
    /\ usedWords' = genResult.usedWords
    /\ hlPc' = "memo"
    /\ UNCHANGED <<highlightRegex, splitP, splitQ, parts, segments>>
    /\ UNCHANGED hlOthers

ShownNext ==
    \/ GenSelectWords
    \/ GenFetchRejected
    \/ GenResponseNotOk
    \/ GenResponseOk
    \/ ShowStory
    \/ HlBuildPattern
    \/ HlRenderPlain
    \/ HlSplitStart
    \/ HlSplitStep
    \/ HlSplitEnd
    \/ HlMapParts

SpecStoryShown == GenInit /\ [][ShownNext]_vars

-----------------------------------------------------------------------------
(* read.tsx: ReadScreen, loadSavedStory, saveStory, handleGenerateStory    *)

MinStoryWords == 10
MaxAttempts == 2

\* Mutant: the text written holds the story without its used words.
stringifyStoryOnly(result) ==
    [kind |-> "json", value |-> [story |-> result.story, usedWords |-> <<>>]]

\* JSON.stringify(result): the text written to lastStory.json.
stringify(result) == [kind |-> "json", value |-> result]

\* A lastStory.json whose text is not JSON.
GarbageFile == [kind |-> "garbage", value |-> <<>>]

\* A story saved by an earlier session.
EarlierStory == [story |-> <<"a">>, usedWords |-> <<wordObject(1)>>]

\* The button that calls handleGenerateStory is rendered (neither of the
\* early returns of the render is taken) and enabled.
generateButtonEnabled == Len(stateWords) >= MinStoryWords /\ ~isGenerating

\* {error && ...} is part of the start view only, which is rendered when
\* there is no storyResult.
errorDisplayed ==
    error # Null /\ storyResult = <<>> /\ Len(stateWords) >= MinStoryWords

\* The vocabularies of the screen: one word short of the minimum, the minimum
\* and one more, each the same word repeated, so that the order generateStory
\* shuffles them into does not multiply the stories the screen can hold.
ScreenWordLists ==
    {wordList(n, 1) : n \in (MinStoryWords - 1)..(MinStoryWords + 1)}

ReadInit ==
    /\ stateWords \in ScreenWordLists
    /\ storyResult = <<>>
    /\ isGenerating = FALSE
    /\ error = Null
    /\ savedFile \in {<<>>, <<GarbageFile>>, <<stringify(EarlierStory)>>}
    /\ loadPc = "mount"
    /\ loadContent = <<>>
    /\ attempts = 0
    /\ MatchIdle /\ HlIdle /\ GenIdle /\ ImpIdle /\ VocIdle /\ ListenIdle
    /\ NormIdle /\ QuizIdle

\* The mount effect: if (file.exists) starts file.text(); an absent file ends
\* the load.
ReadMount ==
    /\ loadPc = "mount"
    /\ loadPc' = IF savedFile = <<>> THEN "done" ELSE "reading"
    /\ UNCHANGED <<stateWords, storyResult, isGenerating, error, savedFile,
                   loadContent, attempts>>
    /\ UNCHANGED genVars
    /\ UNCHANGED readOthers

\* file.text() reads the file as it is now.
ReadFileText ==
    /\ loadPc = "reading"
    /\ loadContent' = savedFile
    /\ loadPc' = "read"
    /\ UNCHANGED <<stateWords, storyResult, isGenerating, error, savedFile,
                   attempts>>
    /\ UNCHANGED genVars
    /\ UNCHANGED readOthers

\* file.text() rejects: the catch logs 'No saved story found'.
ReadFileTextFails ==
    /\ loadPc = "reading"
    /\ loadPc' = "done"
    /\ UNCHANGED <<stateWords, storyResult, isGenerating, error, savedFile,
                   loadContent, attempts>>
    /\ UNCHANGED genVars
    /\ UNCHANGED readOthers

\* The continuation of the load: JSON.parse(content) and setStoryResult(saved),
\* or the catch when the text is not JSON.
ReadLoadParsed ==
    /\ loadPc = "read"
    /\ storyResult' = IF loadContent[1].kind = "json"
                      THEN <<loadContent[1].value>>
                      ELSE storyResult
    /\ loadPc' = "done"
    /\ UNCHANGED <<stateWords, isGenerating, error, savedFile, loadContent,
                   attempts>>
    /\ UNCHANGED genVars
    /\ UNCHANGED readOthers

\* handleGenerateStory up to await generateStory(...); the mount effect has
\* run by the time the button can be pressed.
ReadTapGenerate ==
    /\ loadPc # "mount"
    /\ generateButtonEnabled
    /\ attempts < MaxAttempts
    /\ attempts' = attempts + 1
    /\ IF Len(stateWords) < MinStoryWords
       THEN /\ error' = "Vous avez besoin d'au moins 10 mots"
            /\ UNCHANGED <<isGenerating, words, genPc>>
       ELSE /\ isGenerating' = TRUE
            /\ error' = Null
            /\ words' = stateWords
            /\ genPc' = "start"
    /\ UNCHANGED <<shuffled, selectedWords, genResult, genError, requests>>
    /\ UNCHANGED <<stateWords, storyResult, savedFile, loadPc, loadContent>>
    /\ UNCHANGED readOthers

\* generateStory has returned: setStoryResult(result), saveStory(result)
\* (whose write may throw, which saveStory catches), setIsGenerating(false).
ReadGenerateReturned ==
    /\ isGenerating
    /\ genPc = "returned"
    /\ storyResult' = <<genResult>>
    /\ \E written \in BOOLEAN :
          savedFile' = IF written THEN <<stringify(genResult)>> ELSE savedFile
    /\ isGenerating' = FALSE
    /\ words' = <<>> /\ shuffled' = <<>> /\ selectedWords' = <<>>
    /\ genPc' = "idle" /\ genResult' = Null /\ genError' = Null
    /\ UNCHANGED <<requests, stateWords, error, loadPc, loadContent, attempts>>
    /\ UNCHANGED readOthers

\* generateStory has thrown: setError(err.message || ...),
\* setIsGenerating(false).
ReadGenerateThrew ==
    /\ isGenerating
    /\ genPc = "threw"
    /\ error' = genError
    /\ isGenerating' = FALSE
    /\ words' = <<>> /\ shuffled' = <<>> /\ selectedWords' = <<>>
    /\ genPc' = "idle" /\ genResult' = Null /\ genError' = Null
    /\ UNCHANGED <<requests, stateWords, storyResult, savedFile, loadPc,
                   loadContent, attempts>>
    /\ UNCHANGED readOthers

ReadNext ==
    \/ ReadMount
    \/ ReadFileText
    \/ ReadFileTextFails
    \/ ReadLoadParsed
    \/ ReadTapGenerate
    \/ GenSelectWords
    \/ GenFetchRejected
    \/ GenResponseNotOk
    \/ GenResponseOk
    \/ ReadGenerateReturned
    \/ ReadGenerateThrew

SpecRead == ReadInit /\ [][ReadNext]_vars

-----------------------------------------------------------------------------
(* firebase.ts and VocabularyContext: the store, the provider, the import  *)

\* firestore.Timestamp.fromMillis and Timestamp.toMillis
fromMillis(ms) ==
    [seconds |-> ms \div 1000, nanoseconds |-> (ms % 1000) * 1000000]
toMillis(ts) == ts.seconds * 1000 + ts.nanoseconds \div 1000000

\* value || Date.now() on a number
orNow(value, now) == IF value = 0 THEN now ELSE value

\* The document batch.set writes for a word (importWords).
docOfWord(word) ==
    [id |-> word.id, portuguese |-> word.portuguese, french |-> word.french,
     examples |-> word.examples.items,
     createdAt |-> fromMillis(word.createdAt.value),
     updatedAt |-> fromMillis(word.updatedAt.value)]

\* The Word the snapshot mapping builds from a document.
wordOfDoc(doc, now) ==
    [id |-> doc.id, portuguese |-> doc.portuguese, french |-> doc.french,
     examples |-> doc.examples,
     createdAt |-> orNow(toMillis(doc.createdAt), now),
     updatedAt |-> orNow(toMillis(doc.updatedAt), now)]

\* The document ids of the model, in the order of the document names.
DocIdOrder == <<"n1", "w1", "w2", "w3">>
rank(id) == CHOOSE k \in 1..Len(DocIdOrder) : DocIdOrder[k] = id

\* orderBy('createdAt', 'desc'): a comes before b.
newerThan(a, b) ==
    \/ toMillis(a.createdAt) > toMillis(b.createdAt)
    \/ toMillis(a.createdAt) = toMillis(b.createdAt) /\ rank(a.id) > rank(b.id)

RECURSIVE orderedDocs(_)
orderedDocs(coll) ==
    IF coll = {} THEN <<>>
    ELSE LET first == CHOOSE d \in coll :
                          \A e \in coll \ {d} : newerThan(d, e)
         IN  <<first>> \o orderedDocs(coll \ {first})

\* snapshot.docs.map(...) of subscribeToWords and getAllWords
snapshotWords(coll, now) ==
    LET docs == orderedDocs(coll)
    IN  [k \in 1..Len(docs) |-> wordOfDoc(docs[k], now)]

\* batch.delete(ref) for every ref, doc(id).set(data), doc(id).delete()
deleteDocs(coll, refs) == {d \in coll : d.id \notin refs}
setDoc(coll, doc) == {d \in coll : d.id # doc.id} \cup {doc}

RECURSIVE setWords(_, _)
setWords(coll, list) ==
    IF list = <<>> THEN coll
    ELSE setWords(setDoc(coll, docOfWord(Head(list))), Tail(list))

\* batch.commit() of importWords: the deletes of the documents that get()
\* returned, then the sets of the words, applied together.
commitBatch(coll, refs, list) == setWords(deleteDocs(coll, refs), list)

\* VocabularyContext
initialState == [words |-> <<>>, isLoading |-> TRUE, error |-> Null]

SetWords(payload) == [type |-> "SET_WORDS", words |-> payload]
SetLoading(payload) == [type |-> "SET_LOADING", flag |-> payload]
SetError(payload) == [type |-> "SET_ERROR", message |-> payload]

\* Mutant: a reducer whose SET_WORDS case starts from the initial state.
vocabularyReducerResetting(st, action) ==
    IF action.type = "SET_WORDS"
    THEN [initialState EXCEPT !.words = action.words, !.isLoading = FALSE]
    ELSE IF action.type = "SET_LOADING"
    THEN [st EXCEPT !.isLoading = action.flag]
    ELSE IF action.type = "SET_ERROR"
    THEN [st EXCEPT !.error = action.message, !.isLoading = FALSE]
    ELSE st

vocabularyReducer(st, action) ==
    IF action.type = "SET_WORDS"
    THEN [st EXCEPT !.words = action.words, !.isLoading = FALSE]
    ELSE IF action.type = "SET_LOADING"
    THEN [st EXCEPT !.isLoading = action.flag]
    ELSE IF action.type = "SET_ERROR"
    THEN [st EXCEPT !.error = action.message, !.isLoading = FALSE]
    ELSE st

MaxWrites == 1

\* A document of the collection before the import.
storedDoc(id) ==
    [id |-> id, portuguese |-> "velho", french |-> "vieux", examples |-> <<>>,
     createdAt |-> fromMillis(SavedTime), updatedAt |-> fromMillis(SavedTime)]

\* The document addWord creates: an auto-generated id, server timestamps.
addedDoc(now) ==
    [id |-> "n1", portuguese |-> "novo", french |-> "nouveau",
     examples |-> <<>>,
     createdAt |-> fromMillis(now), updatedAt |-> fromMillis(now)]

StoredCollections ==
    {{}, {storedDoc("w1")}, {storedDoc("w1"), storedDoc("w3")}}

\* A word object of a backup file; its updatedAt is missing.
backupWord(id, pt) ==
    [id |-> id, portuguese |-> pt, french |-> "maison",
     examples |-> Examples(<<"ex">>),
     createdAt |-> Time(SavedTime), updatedAt |-> NoTime]

\* The files picked on the settings screen: text that is not JSON, an empty
\* words array, two words, two words with the same id, and a valid word
\* followed by one without french.
BackupFiles ==
    {[kind |-> "notJson", words |-> <<>>]}
    \cup {[kind |-> "wordsArray", words |-> ws] :
            ws \in {<<>>,
                    <<backupWord("w1", "casa"), backupWord("w2", "porta")>>,
                    <<backupWord("w1", "casa"), backupWord("w1", "porta")>>,
                    <<backupWord("w1", "casa"),
                      [backupWord("w2", "porta") EXCEPT !.french = ""]>>}}

VocInit ==
    /\ store \in StoredCollections
    /\ state = initialState
    /\ listener = "none"
    /\ snapshotDue = FALSE
    /\ refreshPc = "idle"
    /\ importPc = "idle"
    /\ existingDocs = {}
    /\ isImporting = FALSE
    /\ alert = Null
    /\ writes = 0
    /\ fetchedDocs = {}
    /\ impFile = Null
    /\ impData = <<>>
    /\ impIdx = 0
    /\ impPc = "idle"
    /\ impResult = Null
    /\ impError = Null
    /\ clock = FirstClock
    /\ MatchIdle /\ HlIdle /\ GenIdle /\ ReadIdle /\ ListenIdle /\ NormIdle
    /\ QuizIdle

\* useEffect of VocabularyProvider: dispatch SET_LOADING, subscribeToWords.
VocMount ==
    /\ listener = "none"
    /\ state' = vocabularyReducer(state, SetLoading(TRUE))
    /\ listener' = "attached"
    /\ snapshotDue' = TRUE
    /\ UNCHANGED <<store, refreshPc, importPc, existingDocs, isImporting,
                   alert, writes>>
    /\ UNCHANGED <<impVars, vocOthers>>
    /\ UNCHANGED fetchedDocs

\* onSnapshot delivers the collection: dispatch SET_WORDS.
VocSnapshot ==
    /\ listener = "attached"
    /\ snapshotDue
    /\ state' = vocabularyReducer(state, SetWords(snapshotWords(store, clock)))
    /\ snapshotDue' = FALSE
    /\ UNCHANGED <<store, listener, refreshPc, importPc, existingDocs,
                   isImporting, alert, writes>>
    /\ UNCHANGED <<impVars, vocOthers>>
    /\ UNCHANGED fetchedDocs

\* onSnapshot reports an error, which ends the listener: dispatch SET_ERROR.
VocSubscriptionError ==
    /\ listener = "attached"
    /\ state' = vocabularyReducer(state,
                                  SetError("Failed to sync with database"))
    /\ listener' = "closed"
    /\ snapshotDue' = FALSE
    /\ UNCHANGED <<store, refreshPc, importPc, existingDocs, isImporting,
                   alert, writes>>
    /\ UNCHANGED <<impVars, vocOthers>>
    /\ UNCHANGED fetchedDocs

\* refreshWords up to its await: dispatch SET_LOADING.
VocRefresh ==
    /\ listener # "none"
    /\ refreshPc = "idle"
    /\ state' = vocabularyReducer(state, SetLoading(TRUE))
    /\ refreshPc' = "fetching"
    /\ UNCHANGED <<store, listener, snapshotDue, importPc, existingDocs,
                   isImporting, alert, writes>>
    /\ UNCHANGED <<impVars, vocOthers>>
    /\ UNCHANGED fetchedDocs

\* getAllWords: wordsCollection.orderBy('createdAt', 'desc').get() reads
\* the collection; its promise is settled later.
VocGetAllWords ==
    /\ refreshPc = "fetching"
    /\ fetchedDocs' = store
    /\ refreshPc' = "resolving"
    /\ UNCHANGED <<store, state, listener, snapshotDue, importPc,
                   existingDocs, isImporting, alert, writes>>
    /\ UNCHANGED <<impVars, vocOthers>>

\* getAllWords resolves: the documents that get() read are mapped to words,
\* dispatch SET_WORDS.
VocRefreshFetched ==
    /\ refreshPc = "resolving"
    /\ state' = vocabularyReducer(state,
                                  SetWords(snapshotWords(fetchedDocs, clock)))
    /\ refreshPc' = "idle"
    /\ fetchedDocs' = {}
    /\ UNCHANGED <<store, listener, snapshotDue, importPc, existingDocs,
                   isImporting, alert, writes>>
    /\ UNCHANGED <<impVars, vocOthers>>

\* getAllWords rejects: dispatch SET_ERROR.
VocRefreshFails ==
    /\ refreshPc = "fetching"
    /\ state' = vocabularyReducer(state, SetError("Failed to refresh words"))
    /\ refreshPc' = "idle"
    /\ UNCHANGED <<store, listener, snapshotDue, importPc, existingDocs,
                   isImporting, alert, writes>>
    /\ UNCHANGED <<impVars, vocOthers>>
    /\ UNCHANGED fetchedDocs

\* A write to the collection changes it and makes a snapshot due.
writeStore(coll) ==
    /\ writes < MaxWrites
    /\ writes' = writes + 1
    /\ store' = coll
    /\ snapshotDue' = (listener = "attached")
    /\ UNCHANGED <<state, listener, refreshPc, importPc, existingDocs,
                   isImporting, alert>>
    /\ UNCHANGED <<impVars, vocOthers>>
    /\ UNCHANGED fetchedDocs

\* addWord: wordsCollection.add with server timestamps.
VocAddWord ==
    /\ listener # "none"
    /\ \A d \in store : d.id # addedDoc(clock).id
    /\ writeStore(store \cup {addedDoc(clock)})

\* updateWord: doc(id).update with the new texts and a server timestamp.
VocUpdateWord ==
    /\ listener # "none"
    /\ \E d \in store :
          writeStore(setDoc(store, [d EXCEPT !.french = "ancien",
                                             !.updatedAt = fromMillis(clock)]))

\* deleteWord: doc(id).delete()
VocDeleteWord ==
    /\ listener # "none"
    /\ \E d \in store : writeStore(deleteDocs(store, {d.id}))

\* handleImport, 'Importer' pressed: setIsImporting(true), importFromJson()
\* is called and the picker is shown.
SettingsImportPressed ==
    /\ listener # "none"
    /\ importPc = "idle"
    /\ importPc' = "importFromJson"
    /\ isImporting' = TRUE
    /\ impFile' \in BackupFiles
    /\ impPc' = "pick"
    /\ UNCHANGED <<impData, impIdx, impResult, impError, clock>>
    /\ UNCHANGED <<store, state, listener, snapshotDue, refreshPc,
                   existingDocs, alert, writes>>
    /\ UNCHANGED vocOthers
    /\ UNCHANGED fetchedDocs

\* importFromJson threw: the catch alerts unless the import was cancelled,
\* finally setIsImporting(false).
SettingsImportThrew ==
    /\ importPc = "importFromJson"
    /\ impPc = "threw"
    /\ importPc' = "failed"
    /\ alert' = IF impError # "Import cancelled" THEN "import failed" ELSE alert
    /\ isImporting' = FALSE
    /\ UNCHANGED <<store, state, listener, snapshotDue, refreshPc,
                   existingDocs, writes>>
    /\ UNCHANGED <<impVars, vocOthers>>
    /\ UNCHANGED fetchedDocs

\* importWords(words) up to its first await: wordsCollection.get() resolves
\* with the documents of the collection.
StoreGetExisting ==
    /\ importPc = "importFromJson"
    /\ impPc = "returned"
    /\ existingDocs' = {d.id : d \in store}
    /\ importPc' = "commit"
    /\ UNCHANGED <<store, state, listener, snapshotDue, refreshPc,
                   isImporting, alert, writes>>
    /\ UNCHANGED <<impVars, vocOthers>>
    /\ UNCHANGED fetchedDocs

\* wordsCollection.get() or batch.commit() rejects: nothing is written, the
\* catch of handleImport alerts, finally setIsImporting(false).
StoreRejects ==
    /\ \/ importPc = "importFromJson" /\ impPc = "returned"
       \/ importPc = "commit"
    /\ importPc' = "failed"
    /\ alert' = "import failed"
    /\ isImporting' = FALSE
    /\ UNCHANGED <<store, state, listener, snapshotDue, refreshPc,
                   existingDocs, writes>>
    /\ UNCHANGED <<impVars, vocOthers>>
    /\ UNCHANGED fetchedDocs

\* The batch is filled and batch.commit() resolves; handleImport alerts the
\* success, finally setIsImporting(false).
StoreCommit ==
    /\ importPc = "commit"
    /\ store' = commitBatch(store, existingDocs, impResult)
    /\ snapshotDue' = IF listener = "attached" /\ store' # store
                      THEN TRUE ELSE snapshotDue
    /\ importPc' = "done"
    /\ alert' = "import succeeded"
    /\ isImporting' = FALSE
    /\ UNCHANGED <<state, listener, refreshPc, existingDocs, writes>>
    /\ UNCHANGED <<impVars, vocOthers>>
    /\ UNCHANGED fetchedDocs

VocNext ==
    \/ VocMount
    \/ VocSnapshot
    \/ VocSubscriptionError
    \/ VocRefresh
    \/ VocGetAllWords
    \/ VocRefreshFetched
    \/ VocRefreshFails
    \/ VocAddWord
    \/ VocUpdateWord
    \/ VocDeleteWord
    \/ SettingsImportPressed
    \/ SettingsImportThrew
    \/ StoreGetExisting
    \/ StoreRejects
    \/ StoreCommit
    \/ ImpPickCancelled
    \/ ImpPickFile
    \/ ImpReadFails
    \/ ImpParse
    \/ ImpValidateWord
    \/ ImpReturn
    \/ ImpTick

SpecVocabulary == VocInit /\ [][VocNext]_vars

-----------------------------------------------------------------------------
(* learn.tsx: listen mode (startListenMode, playNextListenWord,            *)
(* stopListenMode, skipToNext)                                             *)

\* setTimeout(..., 5000), setTimeout(..., 2000), setInterval(..., 1000) and
\* let count = 5
FrenchDelayMs == 5000
NextDelayMs == 2000
CountdownIntervalMs == 1000
CountdownStart == 5

MaxOverrun == 1

NoTimer == 0 - 1

\* The vocabulary of the provider once it is loaded.
ListenWords ==
    <<[portuguese |-> "casa", french |-> "maison"],
      [portuguese |-> "porta", french |-> "porte"]>>

\* A call of playNextListenWord and the callbacks it has registered: its
\* position, its word (a list of one word), the isListening and the state.words its closure holds
\* (the ones of the render that created the callback), the time left on the
\* setTimeout it has pending.
NoChain ==
    [pc |-> "free", word |-> <<>>, live |-> FALSE, words |-> <<>>,
     timer |-> NoTimer]

\* The calls of playNextListenWord that can be running at once: the one
\* that plays, and one that a skip or a stop left awaiting findPtPTVoice.
Slots == {"call1", "call2"}
freeSlot(ch) == CHOOSE c \in Slots : ch[c].pc = "free"
hasFreeSlot(ch) == \E c \in Slots : ch[c].pc = "free"

\* The elements of a list.
Elements(list) == {list[k] : k \in 1..Len(list)}

\* For comparison with mountVersion: the callback startListenMode would call
\* if it held the playNextListenWord of the current render.
currentVersion(captured, listening, current) ==
    [live |-> listening, words |-> current]

\* The playNextListenWord that startListenMode calls: its useCallback has no
\* dependencies, so it holds the callback of the first render, whose
\* isListening is the initial false and whose getRandomWord reads the
\* state.words of that render.
mountVersion(captured, listening, current) ==
    [live |-> FALSE, words |-> captured]

\* The playNextListenWord that skipToNext calls: the one of the last render.
renderVersion(listening, current) == [live |-> listening, words |-> current]

\* Mutant of afterPortuguese: the French timer is not armed.
afterPortugueseNoDelay(chain) ==
    [chain EXCEPT !.pc = "waiting", !.timer = 0]

\* onDone of the Portuguese utterance: the 5-second timer is set.
afterPortuguese(chain) ==
    [chain EXCEPT !.pc = "waiting", !.timer = FrenchDelayMs]

\* clearTimeout(timerRef.current) and Speech.stop(): the chain whose timer
\* the ref names never runs its callback, nor do the chains whose utterance
\* is queued or being spoken.
cancelled(ch, ref) ==
    [c \in Slots |->
        IF \/ c = ref /\ ch[c].timer # NoTimer
           \/ ch[c].pc \in {"portuguese", "french"}
        THEN NoChain ELSE ch[c]]

NoInterval == [active |-> FALSE, count |-> 0]

ListenInit ==
    /\ vocabulary \in {<<>>, ListenWords}
    /\ mounted = FALSE
    /\ mountWords = <<>>
    /\ mode = "select"
    /\ listenWord = <<>>
    /\ listenPhase = "portuguese"
    /\ isListening = FALSE
    /\ countdown = CountdownStart
    /\ chains = [c \in Slots |-> NoChain]
    /\ speechQueue = <<>>
    /\ timerRef = "none"
    /\ countdownRef = NoInterval
    /\ leakedIntervals = {}
    /\ MatchIdle /\ HlIdle /\ GenIdle /\ ImpIdle /\ ReadIdle /\ VocIdle
    /\ NormIdle /\ QuizIdle

\* The first render of LearnScreen: its callbacks capture that render.
ListenMount ==
    /\ ~mounted
    /\ mounted' = TRUE
    /\ mountWords' = vocabulary
    /\ UNCHANGED <<vocabulary, mode, listenWord, listenPhase, isListening,
                   countdown, chains, speechQueue, timerRef, countdownRef,
                   leakedIntervals>>
    /\ UNCHANGED listenOthers

\* The provider's state.words changes from empty to the vocabulary (the
\* first snapshot arrives, or the first words are added).
ListenVocabularyLoaded ==
    /\ vocabulary = <<>>
    /\ vocabulary' = ListenWords
    /\ UNCHANGED <<mounted, mountWords, mode, listenWord, listenPhase,
                   isListening, countdown, chains, speechQueue, timerRef,
                   countdownRef, leakedIntervals>>
    /\ UNCHANGED listenOthers

\* playNextListenWord of a version up to its await: getRandomWord(), return
\* if there is no word, setListenWord, setListenPhase('portuguese'),
\* setCountdown(5), findPtPTVoice() is awaited.
playNextListenWord(version, ch) ==
    IF version.words = <<>>
    THEN /\ chains' = ch
         /\ UNCHANGED <<listenWord, listenPhase, countdown>>
    ELSE /\ hasFreeSlot(ch)
         /\ \E word \in Elements(version.words) :
               /\ chains' = [ch EXCEPT ![freeSlot(ch)] =
                                [pc |-> "voice", word |-> <<word>>,
                                 live |-> version.live,
                                 words |-> version.words, timer |-> NoTimer]]
               /\ listenWord' = <<word>>
         /\ listenPhase' = "portuguese"
         /\ countdown' = CountdownStart

\* startListenMode (the button is rendered when state.words is not empty and
\* the mode is 'select').
ListenStart ==
    /\ mounted
    /\ mode = "select"
    /\ vocabulary # <<>>
    /\ mode' = "listen"
    /\ isListening' = TRUE
    /\ playNextListenWord(mountVersion(mountWords, isListening', vocabulary),
                          chains)
    /\ UNCHANGED <<vocabulary, mounted, mountWords, speechQueue, timerRef,
                   countdownRef, leakedIntervals>>
    /\ UNCHANGED listenOthers

\* findPtPTVoice() resolved: Speech.speak(word.portuguese, ...)
ListenVoiceFound ==
    /\ \E c \in Slots :
          /\ chains[c].pc = "voice"
          /\ chains' = [chains EXCEPT ![c].pc = "portuguese"]
          /\ speechQueue' = Append(speechQueue, <<c, "portuguese">>)
    /\ UNCHANGED <<vocabulary, mounted, mountWords, mode, listenWord,
                   listenPhase, isListening, countdown, timerRef, countdownRef,
                   leakedIntervals>>
    /\ UNCHANGED listenOthers

\* The utterance being spoken ends and its onDone runs.  Portuguese:
\* setListenPhase('waiting'), setCountdown(5), the interval and the 5-second
\* timer are set (an interval still held by countdownRef keeps running).
\* French: the 2-second timer is set.
ListenSpeechDone ==
    /\ speechQueue # <<>>
    /\ speechQueue' = Tail(speechQueue)
    /\ LET c == Head(speechQueue)[1]
       IN  IF Head(speechQueue)[2] = "portuguese"
           THEN /\ chains' = [chains EXCEPT ![c] = afterPortuguese(@)]
                /\ listenPhase' = "waiting"
                /\ countdown' = CountdownStart
                /\ leakedIntervals' =
                      IF countdownRef.active
                      THEN leakedIntervals \cup {countdownRef.count}
                      ELSE leakedIntervals
                /\ countdownRef' = [active |-> TRUE, count |-> CountdownStart]
                /\ timerRef' = c
           ELSE /\ chains' = [chains EXCEPT ![c].pc = "pause",
                                            ![c].timer = NextDelayMs]
                /\ timerRef' = c
                /\ UNCHANGED <<listenPhase, countdown, countdownRef,
                               leakedIntervals>>
    /\ UNCHANGED <<vocabulary, mounted, mountWords, mode, listenWord,
                   isListening>>
    /\ UNCHANGED listenOthers

\* The counts of the intervals that countdownRef no longer holds, after one
\* more callback each (kept from falling below -MaxOverrun).
leakedAfterTick(counts) ==
    {IF k - 1 < 0 - MaxOverrun THEN 0 - MaxOverrun ELSE k - 1 : k \in counts}

Largest(S) == CHOOSE k \in S : \A j \in S : j <= k

\* One interval period passes: every pending timer has that much less to
\* run, and every interval runs its callback, the older ones first: count--,
\* setCountdown(count), and at count <= 0 clearInterval(countdownRef.current).
ListenTick ==
    /\ \A c \in Slots : chains[c].timer # 0
    /\ \/ \E c \in Slots : chains[c].timer > 0
       \/ countdownRef.active
       \/ leakedAfterTick(leakedIntervals) # leakedIntervals
    /\ chains' = [c \in Slots |->
                    IF chains[c].timer > 0
                    THEN [chains[c] EXCEPT !.timer = @ - CountdownIntervalMs]
                    ELSE chains[c]]
    /\ leakedIntervals' = leakedAfterTick(leakedIntervals)
    /\ LET cleared == \E k \in leakedIntervals' : k <= 0
           runs == countdownRef.active /\ ~cleared
       IN  /\ countdownRef' =
                 IF runs /\ countdownRef.count - 1 > 0
                 THEN [countdownRef EXCEPT !.count = @ - 1]
                 ELSE NoInterval
           /\ countdown' =
                 IF runs THEN countdownRef.count - 1
                 ELSE IF leakedIntervals' # {} THEN Largest(leakedIntervals')
                 ELSE countdown
    /\ UNCHANGED <<vocabulary, mounted, mountWords, mode, listenWord,
                   listenPhase, isListening, speechQueue, timerRef>>
    /\ UNCHANGED listenOthers

\* The 5-second timer fires: clearInterval(countdownRef.current),
\* setListenPhase('french'), Speech.speak(word.french, ...)
ListenFrenchTimer ==
    /\ \E c \in Slots :
          /\ chains[c].pc = "waiting"
          /\ chains[c].timer = 0
          /\ chains' = [chains EXCEPT ![c].pc = "french",
                                      ![c].timer = NoTimer]
          /\ speechQueue' = Append(speechQueue, <<c, "french">>)
    /\ countdownRef' = NoInterval
    /\ listenPhase' = "french"
    /\ UNCHANGED <<vocabulary, mounted, mountWords, mode, listenWord,
                   isListening, countdown, timerRef, leakedIntervals>>
    /\ UNCHANGED listenOthers

\* The 2-second timer fires: if (isListening) playNextListenWord(), both as
\* the closure of the callback holds them.
ListenNextTimer ==
    /\ \E c \in Slots :
          /\ chains[c].pc = "pause"
          /\ chains[c].timer = 0
          /\ IF chains[c].live
             THEN playNextListenWord(
                      [live |-> chains[c].live, words |-> chains[c].words],
                      [chains EXCEPT ![c] = NoChain])
             ELSE /\ chains' = [chains EXCEPT ![c] = NoChain]
                  /\ UNCHANGED <<listenWord, listenPhase, countdown>>
    /\ UNCHANGED <<vocabulary, mounted, mountWords, mode, isListening,
                   speechQueue, timerRef, countdownRef, leakedIntervals>>
    /\ UNCHANGED listenOthers

\* skipToNext: clearTimeout, clearInterval, Speech.stop(), then the
\* playNextListenWord of the last render.
ListenSkip ==
    /\ mode = "listen"
    /\ playNextListenWord(renderVersion(isListening, vocabulary),
                          cancelled(chains, timerRef))
    /\ speechQueue' = <<>>
    /\ countdownRef' = NoInterval
    /\ UNCHANGED <<vocabulary, mounted, mountWords, mode, isListening,
                   timerRef, leakedIntervals>>
    /\ UNCHANGED listenOthers

\* stopListenMode (also goBackToSelect in listen mode).
ListenStop ==
    /\ mode = "listen"
    /\ isListening' = FALSE
    /\ chains' = cancelled(chains, timerRef)
    /\ speechQueue' = <<>>
    /\ countdownRef' = NoInterval
    /\ mode' = "select"
    /\ listenWord' = <<>>
    /\ UNCHANGED <<vocabulary, mounted, mountWords, listenPhase, countdown,
                   timerRef, leakedIntervals>>
    /\ UNCHANGED listenOthers

\* The screen is unmounted: the cleanup of the effect runs clearTimeout,
\* clearInterval and Speech.stop(); the state setters have no effect from
\* then on, the callbacks that are still registered run all the same.
ListenUnmount ==
    /\ mounted
    /\ mode # "unmounted"
    /\ chains' = cancelled(chains, timerRef)
    /\ speechQueue' = <<>>
    /\ countdownRef' = NoInterval
    /\ mode' = "unmounted"
    /\ UNCHANGED <<vocabulary, mounted, mountWords, listenWord, listenPhase,
                   isListening, countdown, timerRef, leakedIntervals>>
    /\ UNCHANGED listenOthers

ListenNext ==
    \/ ListenMount
    \/ ListenVocabularyLoaded
    \/ ListenStart
    \/ ListenVoiceFound
    \/ ListenSpeechDone
    \/ ListenTick
    \/ ListenFrenchTimer
    \/ ListenNextTimer
    \/ ListenSkip
    \/ ListenStop
    \/ ListenUnmount

SpecListen == ListenInit /\ [][ListenNext]_vars

\* The same with the scheduling of the runtime: a resolved promise, a speech
\* callback and a due timer are run, and time passes; the user's taps and the
\* provider's updates are not required to happen.
SpecListenFair ==
    /\ ListenInit
    /\ [][ListenNext]_vars
    /\ WF_vars(ListenVoiceFound)
    /\ WF_vars(ListenSpeechDone)
    /\ WF_vars(ListenTick)
    /\ WF_vars(ListenFrenchTimer)
    /\ WF_vars(ListenNextTimer)

-----------------------------------------------------------------------------
(* The matcher under test: answersMatch(userAnswer, correctAnswer) as      *)
(* checkAnswer calls it (learn.tsx line 199), on bounded input families.   *)

MaxUserLen == 1
MaxCorrectLen == 3
MaxAccentLen == 2
MaxWordLen == 1

\* Slash-separated alternatives: short answers against multi-variant fields.
SplitInputs ==
    StrUpTo({"a", "b", " "}, MaxUserLen)
        \X StrUpTo({"a", "b", " ", "/"}, MaxCorrectLen)

\* Accents and case: precomposed, decomposed and plain letters.
AccentInputs ==
    StrUpTo({"a", "a~", "A~", "~", " "}, MaxAccentLen)
        \X StrUpTo({"a", "a~", "A~", "~", " "}, MaxAccentLen)

ArticleSet == {ARTICLES[i] : i \in 1..Len(ARTICLES)}

\* Leading parts of a correct answer: nothing, an article and a space, an
\* article glued to the word, and some capitalised forms.
CorrectPrefixes ==
    {<<>>} \cup {a \o <<" ">> : a \in ArticleSet}
    \cup {<<"l", "a">>, <<"l", "'">>, <<"d", "e", " ", "l", "'">>}
    \cup {<<"L", "a", " ">>, <<"L", "'">>, <<"A", " ">>}

UserPrefixes ==
    {<<>>, <<"l", "a">>, <<"l", "'">>, <<"L", "e", " ">>}
    \cup {a \o <<" ">> : a \in ArticleSet}

Bodies == StrUpTo({"a", "x", "a~"}, MaxWordLen)

\* The user types the same body as the correct answer, its unaccented form,
\* or nothing, behind a prefix of their own.
ArticleInputs ==
    {<<pu \o bw[2], pc \o bw[1]>> :
        pu \in UserPrefixes, pc \in CorrectPrefixes,
        bw \in {bv \in Bodies \X Bodies :
                    bv[2] \in {<<>>, bv[1], removeAccents(bv[1])}}}

\* The user types the correct-answer field as the answer card displays it,
\* or one of its variants.
VerbatimInputs ==
    {<<c, c>> : c \in StrUpTo({"a", "b", " ", "/"}, MaxCorrectLen)}
    \cup UNION {{<<validAnswers(c)[k], c>> :
                    k \in 1..Len(validAnswers(c))} :
                        c \in StrUpTo({"a", "b", " ", "/"}, MaxCorrectLen)}

MatchInputs ==
    SplitInputs \cup AccentInputs \cup ArticleInputs \cup VerbatimInputs

MatchInit ==
    /\ \E inp \in MatchInputs :
            /\ userAnswer = inp[1]
            /\ correctAnswer = inp[2]
    /\ matchPc = "call"
    /\ matchResult = FALSE
    /\ HlIdle /\ GenIdle /\ ImpIdle /\ ReadIdle /\ VocIdle /\ ListenIdle
    /\ NormIdle /\ QuizIdle

\* const isAnswerCorrect = answersMatch(userAnswer, correctAnswer)
MatchCall ==
    /\ matchPc = "call"
    /\ matchResult' = answersMatch(userAnswer, correctAnswer)
    /\ matchPc' = "done"
    /\ UNCHANGED <<userAnswer, correctAnswer>>
    /\ UNCHANGED matchOthers

MatchNext == MatchCall

SpecMatch == MatchInit /\ [][MatchNext]_vars

-----------------------------------------------------------------------------
(* learn.tsx: quiz mode (startQuiz, checkAnswer, nextWord, goBackToSelect) *)

MaxAnswerLen == 2

\* The vocabulary of the provider during the quiz.
QuizWords ==
    <<[portuguese |-> <<"o", " ", "a">>, french |-> <<"l", "e", " ", "b">>],
      [portuguese |-> <<"a~">>, french |-> <<"a", "/", "b">>]>>

\* What the user types into the answer field.
QuizAnswers ==
    StrUpTo({"a", "b", " "}, MaxAnswerLen)
    \cup {<<"o", " ", "a">>, <<"l", "e", " ", "b">>, <<" ", "B", " ">>}

\* The quiz state of the current render.
quizState ==
    [currentWord |-> currentWord, showPortuguese |-> showPortuguese,
     userAnswer |-> userAnswer, isAnswered |-> isAnswered,
     isCorrect |-> isCorrect]

\* const correctAnswer = showPortuguese ? currentWord.french
\*                                      : currentWord.portuguese
targetOf(q) ==
    IF q.showPortuguese THEN q.currentWord[1].french
    ELSE q.currentWord[1].portuguese

\* Mutant: checkAnswer without the test of the answer text.
checkAnswerUngated(q) ==
    IF q.currentWord = <<>> THEN q
    ELSE [q EXCEPT !.isCorrect = answersMatch(q.userAnswer, targetOf(q)),
                   !.isAnswered = TRUE]

\* checkAnswer: the quiz state after the call.
checkAnswer(q) ==
    IF q.currentWord = <<>> \/ trim(q.userAnswer) = <<>> THEN q
    ELSE [q EXCEPT !.isCorrect = answersMatch(q.userAnswer, targetOf(q)),
                   !.isAnswered = TRUE]

\* Mutant: startQuiz leaves the answer text of the last question.
startQuizKeepsAnswer ==
    /\ currentWord' \in
          IF vocabulary = <<>> THEN {<<>>}
          ELSE {<<vocabulary[k]>> : k \in 1..Len(vocabulary)}
    /\ showPortuguese' \in BOOLEAN
    /\ userAnswer' = userAnswer
    /\ isAnswered' = FALSE
    /\ isCorrect' = FALSE

\* startQuiz: getRandomWord() (null when state.words is empty), a side
\* chosen by Math.random() > 0.5, the answer and both flags reset.
startQuiz ==
    /\ currentWord' \in
          IF vocabulary = <<>> THEN {<<>>}
          ELSE {<<vocabulary[k]>> : k \in 1..Len(vocabulary)}
    /\ showPortuguese' \in BOOLEAN
    /\ userAnswer' = <<>>
    /\ isAnswered' = FALSE
    /\ isCorrect' = FALSE

\* The quiz view is rendered: the mode is 'quiz', state.words is not empty
\* and there is a current word.
quizViewShown ==
    mode = "quiz" /\ vocabulary # <<>> /\ currentWord # <<>>

QuizInit ==
    /\ vocabulary = QuizWords
    /\ mounted = FALSE
    /\ mountWords = <<>>
    /\ mode = "select"
    /\ listenWord = <<>>
    /\ listenPhase = "portuguese"
    /\ isListening = FALSE
    /\ countdown = 0
    /\ chains = <<>>
    /\ speechQueue = <<>>
    /\ timerRef = "none"
    /\ countdownRef = Null
    /\ leakedIntervals = {}
    /\ QuizIdle
    /\ MatchIdle /\ HlIdle /\ GenIdle /\ ImpIdle /\ ReadIdle /\ VocIdle
    /\ NormIdle

\* The 'Mode Quiz' button of the selection screen: setMode('quiz');
\* startQuiz()
QuizSelected ==
    /\ mode = "select"
    /\ vocabulary # <<>>
    /\ mode' = "quiz"
    /\ startQuiz
    /\ UNCHANGED quizOthers

\* onChangeText={setUserAnswer}, with editable={!isAnswered}
QuizChangeText ==
    /\ quizViewShown
    /\ ~isAnswered
    /\ userAnswer' \in QuizAnswers
    /\ UNCHANGED <<mode, currentWord, showPortuguese, isAnswered, isCorrect>>
    /\ UNCHANGED quizOthers

\* checkAnswer is called: by the 'Vérifier' button, which is disabled while
\* the answer is blank, or by onSubmitEditing, which is not; neither is
\* there once the question is answered.
QuizCheckAnswer ==
    /\ quizViewShown
    /\ ~isAnswered
    /\ LET q == checkAnswer(quizState)
       IN  /\ currentWord' = q.currentWord
           /\ showPortuguese' = q.showPortuguese
           /\ userAnswer' = q.userAnswer
           /\ isAnswered' = q.isAnswered
           /\ isCorrect' = q.isCorrect
    /\ UNCHANGED mode
    /\ UNCHANGED quizOthers

\* nextWord ('Passer' before the answer, 'Mot suivant' after it)
QuizNextWord ==
    /\ quizViewShown
    /\ startQuiz
    /\ UNCHANGED mode
    /\ UNCHANGED quizOthers

\* goBackToSelect in quiz mode: setMode('select'); setCurrentWord(null)
QuizGoBack ==
    /\ quizViewShown
    /\ mode' = "select"
    /\ currentWord' = <<>>
    /\ UNCHANGED <<showPortuguese, userAnswer, isAnswered, isCorrect>>
    /\ UNCHANGED quizOthers

QuizNext ==
    \/ QuizSelected
    \/ QuizChangeText
    \/ QuizCheckAnswer
    \/ QuizNextWord
    \/ QuizGoBack

SpecQuiz == QuizInit /\ [][QuizNext]_vars

-----------------------------------------------------------------------------
(* normalizeForComparison under test, on texts that start with articles    *)

Space == <<" ">>
Noun == <<"x">>
Elision == <<"l", "'">>

\* A noun alone, after one article, after two articles, and after an article
\* and an elided l' that is attached to it.
NormInputs ==
    {Noun}
    \cup {a \o Space \o Noun : a \in ArticleSet}
    \cup {a \o Space \o b \o Space \o Noun : a, b \in ArticleSet}
    \cup {a \o Space \o Elision \o Noun : a \in ArticleSet}

NormInit ==
    /\ normText \in NormInputs
    /\ normPc = "call"
    /\ normResult = <<>>
    /\ MatchIdle /\ HlIdle /\ GenIdle /\ ImpIdle /\ ReadIdle /\ VocIdle
    /\ QuizIdle
    /\ ListenIdle

\* const normalizedUser = normalizeForComparison(userAnswer)
NormCall ==
    /\ normPc = "call"
    /\ normResult' = normalizeForComparison(normText)
    /\ normPc' = "done"
    /\ UNCHANGED normText
    /\ UNCHANGED normOthers

NormNext == NormCall

SpecNormalize == NormInit /\ [][NormNext]_vars

-----------------------------------------------------------------------------
(* Properties of the answer matcher                                        *)

HasSlash(s) == \E i \in 1..Len(s) : s[i] = "/"

\* The maximal slash-free stretches of c, as <<first, last>> positions
\* (last = first - 1 for an empty stretch).
VariantBounds(c) ==
    {b \in (1..(Len(c) + 1)) \X (0..Len(c)) :
        /\ b[2] >= b[1] - 1
        /\ (b[1] = 1 \/ c[b[1] - 1] = "/")
        /\ (b[2] = Len(c) \/ c[b[2] + 1] = "/")
        /\ \A k \in b[1]..b[2] : c[k] # "/"}

FirstSlash(c) == CHOOSE i \in 1..Len(c) : c[i] = "/" /\ \A j \in 1..(i - 1) : c[j] # "/"

\* c with its first variant moved behind the others.
RotateVariants(c) ==
    IF ~HasSlash(c) THEN c
    ELSE SubSeq(c, FirstSlash(c) + 1, Len(c)) \o <<"/">>
            \o SubSeq(c, 1, FirstSlash(c) - 1)

\* C1: answersMatch(u, c) is true exactly when u matches some variant of c
\* (c split at the slashes, each part trimmed), whatever the order of the
\* variants.
C1_MatchesAnyVariant ==
    matchPc = "done" =>
        /\ matchResult =
              (\E b \in VariantBounds(correctAnswer) :
                  singleAnswerMatches(userAnswer,
                      trim(SubSeq(correctAnswer, b[1], b[2]))))
        /\ matchResult = answersMatch(userAnswer, RotateVariants(correctAnswer))

\* A user answer accepted through a variant that is not the first one.
C1_Witness ==
    /\ matchPc = "done"
    /\ matchResult
    /\ HasSlash(correctAnswer)
    /\ trim(userAnswer) # <<>>
    /\ ~singleAnswerMatches(userAnswer,
            trim(SubSeq(correctAnswer, 1, FirstSlash(correctAnswer) - 1)))

\* Every accented letter of the accent map replaced by its base letter.
RECURSIVE FoldLetters(_)
FoldLetters(s) ==
    IF s = <<>> THEN <<>>
    ELSE << CASE Head(s) = "a~" -> "a"
              [] Head(s) = "A~" -> "A"
              [] OTHER -> Head(s) >> \o FoldLetters(Tail(s))

FoldedForm(s) == FoldLetters(toLowerCase(trim(s)))

\* C2: two slash-free answers that are equal after trimming, lower-casing
\* and accent folding match each other, in both directions.
C2_AccentInsensitive ==
    (/\ matchPc = "done"
     /\ ~HasSlash(userAnswer)
     /\ ~HasSlash(correctAnswer)
     /\ FoldedForm(userAnswer) = FoldedForm(correctAnswer))
    => (matchResult /\ answersMatch(correctAnswer, userAnswer))

\* Two answers that differ in an accent (and not only in case or spaces).
C2_Witness ==
    /\ matchPc = "done"
    /\ matchResult
    /\ ~HasSlash(correctAnswer)
    /\ FoldedForm(userAnswer) = FoldedForm(correctAnswer)
    /\ toLowerCase(trim(userAnswer)) # toLowerCase(trim(correctAnswer))

\* w begins with an article: it is an article, or an article followed by
\* whitespace, or it starts with the elision form.
BeginsWithArticle(w) ==
    LET t == toLowerCase(trim(w))
    IN  \/ t \in ArticleSet
        \/ \E a \in ArticleSet :
              /\ StartsWith(t, a)
              /\ Len(t) > Len(a)
              /\ t[Len(a) + 1] \in Whitespace
        \/ StartsWith(t, <<"l", "'">>)

\* long is short with an article and a space, or the elision, put in front.
ArticleAdded(short, long) ==
    \/ \E a \in ArticleSet : long = a \o <<" ">> \o short
    \/ long = <<"l", "'">> \o short

\* C3: an answer w that has no article of its own matches w with an article
\* (or the glued elision form) put in front, and the other way round.
C3_ArticleInsensitive ==
    (/\ matchPc = "done"
     /\ \/ /\ ArticleAdded(userAnswer, correctAnswer)
            /\ ~HasSlash(userAnswer)
            /\ ~BeginsWithArticle(userAnswer)
         \/ /\ ArticleAdded(correctAnswer, userAnswer)
            /\ ~HasSlash(correctAnswer)
            /\ ~BeginsWithArticle(correctAnswer))
    => matchResult

\* The user leaves out the article of a real word.
C3_Witness ==
    /\ matchPc = "done"
    /\ matchResult
    /\ trim(userAnswer) # <<>>
    /\ ~BeginsWithArticle(userAnswer)
    /\ ArticleAdded(userAnswer, correctAnswer)

DeLaSpace == <<"d", "e", " ", "l", "a", " ">>

\* A word that is no article: not empty, no whitespace, no slash.
IsPlainWord(x) ==
    /\ x # <<>>
    /\ \A i \in 1..Len(x) : x[i] \notin Whitespace \cup {"/"}
    /\ ~BeginsWithArticle(x)

\* C4: behind "de la " the word alone is accepted and "la" is not: the
\* compound article is removed as one unit.
C4_LongestArticle ==
    (/\ matchPc = "done"
     /\ StartsWith(correctAnswer, DeLaSpace)
     /\ IsPlainWord(DropFirst(correctAnswer, Len(DeLaSpace))))
    => /\ userAnswer = DropFirst(correctAnswer, Len(DeLaSpace)) => matchResult
       /\ userAnswer = <<"l", "a">> => ~matchResult

\* "la" typed for "de la x" and refused.
C4_Witness ==
    /\ matchPc = "done"
    /\ ~matchResult
    /\ userAnswer = <<"l", "a">>
    /\ StartsWith(correctAnswer, DeLaSpace)
    /\ IsPlainWord(DropFirst(correctAnswer, Len(DeLaSpace)))

\* C5: the verdict, and each of the four comparisons, is the same for the
\* answers as typed and for their lower-case forms, so it is the same for
\* any two spellings that differ only in the case of letters.
C5_CaseInsensitive ==
    matchPc = "done" =>
        LET lu == toLowerCase(userAnswer)
            lc == toLowerCase(correctAnswer)
        IN  /\ matchResult = answersMatch(lu, lc)
            /\ exactMatch(userAnswer, correctAnswer) = exactMatch(lu, lc)
            /\ accentMatch(userAnswer, correctAnswer) = accentMatch(lu, lc)
            /\ articleMatch(userAnswer, correctAnswer) = articleMatch(lu, lc)
            /\ articleAccentMatch(userAnswer, correctAnswer)
                  = articleAccentMatch(lu, lc)

\* An accepted answer that differs from the correct one in case.
C5_Witness ==
    /\ matchPc = "done"
    /\ matchResult
    /\ trim(userAnswer) # trim(correctAnswer)
    /\ userAnswer # toLowerCase(userAnswer)
    /\ toLowerCase(trim(userAnswer)) = toLowerCase(trim(correctAnswer))

-----------------------------------------------------------------------------
(* Claims about the story highlighting                                     *)

RECURSIVE ConcatAll(_)
ConcatAll(texts) ==
    IF texts = <<>> THEN <<>> ELSE Head(texts) \o ConcatAll(Tail(texts))

RECURSIVE SegmentTexts(_)
SegmentTexts(segs) ==
    IF segs = <<>> THEN <<>>
    ELSE <<Head(segs).text>> \o SegmentTexts(Tail(segs))

\* C6: concatenating, in order, the pieces the split produced (and the texts
\* of the segments rendered from them) gives back the story, for every story
\* and every usedWords list.
C6_HighlightRoundTrip ==
    /\ hlPc \in {"map", "rendered"} /\ highlightRegex # Null /\ story # <<>>
          => ConcatAll(parts) = story
    /\ hlPc = "rendered" => ConcatAll(SegmentTexts(segments)) = story

\* A story with plain text on both sides of a highlighted word was split
\* and rendered.
C6_Witness ==
    /\ hlPc = "rendered"
    /\ Len(segments) = 3
    /\ segments[1].kind = "plain" /\ segments[1].text # <<>>
    /\ segments[2].kind = "match"
    /\ segments[3].kind = "plain" /\ segments[3].text # <<>>

\* The offset in the story at which segment k starts.
SegStart(k) == Len(ConcatAll(SegmentTexts(SubSeq(segments, 1, k - 1))))

\* Offset s lies strictly inside a highlighted segment, where the split does
\* not try the pattern.
InsideMatch(s) ==
    \E k \in 1..Len(segments) :
        /\ segments[k].kind = "match"
        /\ SegStart(k) < s
        /\ s < SegStart(k) + Len(segments[k].text)

OccursAt(phrase, s) ==
    /\ s + Len(phrase) <= Len(story)
    /\ toLowerCase(SubSeq(story, s + 1, s + Len(phrase))) = toLowerCase(phrase)

IsProperSubstring(a, b) ==
    /\ Len(a) < Len(b)
    /\ \E o \in 0..(Len(b) - Len(a)) :
          toLowerCase(SubSeq(b, o + 1, o + Len(a))) = toLowerCase(a)

UsedPhrases == {usedWords[i].portuguese : i \in 1..Len(usedWords)}

\* The phrases B of usedWords that contain another phrase A of usedWords.
LongerPhrases ==
    {b \in UsedPhrases : \E a \in UsedPhrases : IsProperSubstring(a, b)}

\* C7 as stated: wherever a phrase B that contains another used phrase occurs
\* at an offset where the split tries the pattern, the highlighted segment
\* emitted there is exactly the occurrence of B.
C7_LongerPhraseIsTheSegment ==
    hlPc = "rendered" =>
        \A b \in LongerPhrases : \A s \in 0..(Len(story) - 1) :
            OccursAt(b, s) /\ ~InsideMatch(s) =>
                \E k \in 1..Len(segments) :
                    /\ segments[k].kind = "match"
                    /\ SegStart(k) = s
                    /\ segments[k].text = SubSeq(story, s + 1, s + Len(b))

\* C7 amended: wherever such a phrase B occurs at an offset where the split
\* tries the pattern, one highlighted segment starts there and begins with
\* the whole occurrence of B (it is B, or a longer used phrase that extends
\* B there), whatever the order of usedWords.
C7_LongerPhraseNotFragmented ==
    hlPc = "rendered" =>
        \A b \in LongerPhrases : \A s \in 0..(Len(story) - 1) :
            OccursAt(b, s) /\ ~InsideMatch(s) =>
                \E k \in 1..Len(segments) :
                    /\ segments[k].kind = "match"
                    /\ SegStart(k) = s
                    /\ Len(segments[k].text) >= Len(b)
                    /\ SubSeq(segments[k].text, 1, Len(b))
                          = SubSeq(story, s + 1, s + Len(b))

\* The shorter phrase comes first in usedWords, the longer one occurs in
\* the story and is highlighted whole.
C7_Witness ==
    /\ hlPc = "rendered"
    /\ \E i, j \in 1..Len(usedWords) :
          /\ i < j
          /\ IsProperSubstring(usedWords[i].portuguese, usedWords[j].portuguese)
          /\ OccursAt(usedWords[j].portuguese, 0)
          /\ \E k \in 1..Len(segments) :
                /\ segments[k].kind = "match"
                /\ SegStart(k) = 0
                /\ segments[k].text = SubSeq(story, 1, Len(usedWords[j].portuguese))
                /\ toLowerCase(segments[k].text)
                      = toLowerCase(usedWords[j].portuguese)

\* C8: with an empty usedWords list there is no pattern, the split never
\* runs, and the output is one plain segment holding the whole story.
C8_EmptyUsedWordsOnePlain ==
    "usedWords" \in storyResultProps /\ usedWords = <<>> /\ hlPc # "idle" =>
        /\ hlPc \notin {"split", "map"}
        /\ parts = <<>> /\ splitQ = 0
        /\ hlPc # "memo" => highlightRegex = Null
        /\ hlPc = "rendered" =>
              segments = <<[kind |-> "plain", text |-> story, french |-> Null]>>

\* A story of several characters was rendered with no used words.
C8_Witness ==
    /\ "usedWords" \in storyResultProps
    /\ usedWords = <<>>
    /\ hlPc = "rendered"
    /\ Len(story) >= 2
    /\ Len(segments) = 1

-----------------------------------------------------------------------------
(* Claims about the story generation                                       *)

Clamp(x, lo, hi) == Min(hi, Max(lo, x))

\* C9 as stated: for every vocabulary size N the selection holds
\* min(N, clamp(round(0.3 * N), 15, 25)) words.
C9_SelectionCountRounded ==
    genPc \in {"fetch", "returned"} =>
        Len(selectedWords)
            = Min(Len(words), Clamp((3 * Len(words) + 5) \div 10, 15, 25))

\* C9 amended: for every vocabulary size N the selection, and the usedWords
\* returned, hold min(N, clamp(floor(0.3 * N), 15, 25)) words: 15 for N = 40,
\* 25 for N = 100, 12 for N = 12.
C9_SelectionCountFloored ==
    /\ genPc \in {"fetch", "returned"} =>
          Len(selectedWords)
              = Min(Len(words), Clamp((3 * Len(words)) \div 10, 15, 25))
    /\ genPc = "returned" =>
          /\ genResult.usedWords = selectedWords
          /\ Len(words) = 40 => Len(genResult.usedWords) = 15
          /\ Len(words) = 100 => Len(genResult.usedWords) = 25
          /\ Len(words) = 12 => Len(genResult.usedWords) = 12

\* A story came back for a vocabulary of 52 words, where floor and round of
\* 0.3 * N differ, with 15 used words.
C9_Witness ==
    /\ genPc = "returned"
    /\ Len(words) = 52
    /\ Len(genResult.usedWords) = 15

-----------------------------------------------------------------------------
(* Claims about the backup import                                          *)

\* The picked file parses to a document without a words array.
NoWordsArray == impFile.kind \in {"jsonNull", "wordsMissing", "wordsNotArray"}

MissingOrEmpty(value) == value = Missing \/ value = ""

\* The entries of the picked file with a missing or empty id, portuguese or
\* french.
BadEntries ==
    {i \in 1..Len(impFile.words) :
        \/ MissingOrEmpty(impFile.words[i].id)
        \/ MissingOrEmpty(impFile.words[i].portuguese)
        \/ MissingOrEmpty(impFile.words[i].french)}

\* C10: when the document has no words array, or some entry of words has a
\* missing or empty id, portuguese or french, importFromJson never returns:
\* it cannot get past the first such entry, and it holds no result; whatever
\* it returns is the complete list, every entry with its three texts.
C10_InvalidImportFails ==
    impPc # "idle" =>
        /\ NoWordsArray \/ BadEntries # {} =>
              /\ impPc # "returned"
              /\ impResult = Null
              /\ impPc = "loop" => \E i \in BadEntries : impIdx <= i
        /\ impPc = "threw" => impResult = Null
        /\ impPc = "returned" =>
              /\ Len(impResult) = Len(impFile.words)
              /\ \A i \in 1..Len(impResult) :
                    /\ ~MissingOrEmpty(impResult[i].id)
                    /\ ~MissingOrEmpty(impResult[i].portuguese)
                    /\ ~MissingOrEmpty(impResult[i].french)

\* The import threw at the second entry, whose french is empty, after it had
\* validated and repaired the first.
C10_Witness ==
    /\ impPc = "threw"
    /\ impError = "Invalid word data in backup file"
    /\ impFile.kind = "wordsArray"
    /\ Len(impFile.words) = 2
    /\ impIdx = 2
    /\ impFile.words[2].french = ""
    /\ impData[1] # impFile.words[1]
    /\ impResult = Null

\* The picked file is a document whose words all have a non-empty id,
\* portuguese and french.
ValidDocument == impFile.kind = "wordsArray" /\ BadEntries = {}

ImportTimes == FirstClock..MaxClock

\* C11 as stated: for a valid document the import does not fail in the
\* validation, and what it returns is the words in order with id, portuguese
\* and french unchanged, examples unchanged when an array and [] otherwise,
\* each timestamp unchanged when the document supplies a value (0 included)
\* and the time of the import only when the field is missing.
C11_ValidImportPreserved ==
    impPc # "idle" /\ ValidDocument =>
        /\ impError \notin {"Invalid backup file format",
                             "Invalid word data in backup file",
                             "JSON Parse error", "TypeError"}
        /\ impPc = "returned" =>
              /\ Len(impResult) = Len(impFile.words)
              /\ \A i \in 1..Len(impResult) :
                    LET given == impFile.words[i]
                        got == impResult[i]
                    IN  /\ got.id = given.id
                        /\ got.portuguese = given.portuguese
                        /\ got.french = given.french
                        /\ got.examples = IF given.examples.isArray
                                          THEN given.examples
                                          ELSE Examples(<<>>)
                        /\ IF given.createdAt.defined
                           THEN got.createdAt = given.createdAt
                           ELSE got.createdAt \in {Time(t) : t \in ImportTimes}
                        /\ IF given.updatedAt.defined
                           THEN got.updatedAt = given.updatedAt
                           ELSE got.updatedAt \in {Time(t) : t \in ImportTimes}

\* A valid document whose first word has createdAt 0 was imported.
C11_Witness ==
    /\ impPc = "returned"
    /\ ValidDocument
    /\ Len(impFile.words) >= 1
    /\ impFile.words[1].createdAt = Time(0)
    /\ ~impFile.words[1].examples.isArray

-----------------------------------------------------------------------------
(* Claims about the matcher on an empty answer                             *)

\* The valid answer is empty once trimmed, accent-folded or stripped of its
\* articles: it is empty, only combining marks, or only articles.
ReducesToEmpty(variant) ==
    \/ toLowerCase(trim(variant)) = <<>>
    \/ removeAccents(toLowerCase(trim(variant))) = <<>>
    \/ normalizeForComparison(variant) = <<>>
    \/ removeAccents(normalizeForComparison(variant)) = <<>>

EmptyAnswer == trim(userAnswer) = <<>>

-----------------------------------------------------------------------------
(* Claims about the highlighting of a malformed storyResult                *)

\* The storyResult lacks story or usedWords, has an empty story or no used
\* words, or has a used word without portuguese.
MalformedOrEmpty ==
    \/ storyResultProps # {"story", "usedWords"}
    \/ story = <<>>
    \/ usedWords = <<>>
    \/ \E i \in 1..Len(usedWords) : "portuguese" \notin DOMAIN usedWords[i]

\* C13 as stated: building the pattern and rendering never throw, for every
\* storyResult that reaches them, and a malformed or empty one is rendered
\* as a single plain segment.
C13_HighlightNeverThrows ==
    /\ hlPc # "threw"
    /\ hlPc = "rendered" /\ MalformedOrEmpty =>
          Len(segments) = 1 /\ segments[1].kind = "plain"

\* A storyResult without story was rendered as one plain segment.
C13_Witness ==
    /\ hlPc = "rendered"
    /\ storyResultProps = {"usedWords"}
    /\ usedWords # <<>>
    /\ Len(segments) = 1
    /\ segments[1].kind = "plain"

-----------------------------------------------------------------------------
(* Claims about the words of a generated story                             *)

Occurrences(list, w) == Cardinality({i \in 1..Len(list) : list[i] = w})

\* Every entry of the list is an entry of the input, no more often than the
\* input holds it.
SelectedFrom(list, input) ==
    \A i \in 1..Len(list) :
        /\ \E j \in 1..Len(input) :
              /\ input[j].portuguese = list[i].portuguese
              /\ input[j].french = list[i].french
        /\ Occurrences(list, list[i]) <= Occurrences(input, list[i])

\* C14: the usedWords generateStory returns are verbatim copies of input
\* words, none more often than the input holds it, and no step of
\* generateStory or of the highlighting changes the input word list, the
\* returned usedWords and story, or the usedWords and story being rendered.
C14_UsedWordsVerbatim ==
    [][/\ words' = words
       /\ genPc' = "returned" => SelectedFrom(genResult'.usedWords, words')
       /\ genPc = "returned" => genResult' = genResult
       /\ hlPc # "idle" => story' = story /\ usedWords' = usedWords
       /\ hlPc' # "idle" =>
             story' = genResult'.story /\ usedWords' = genResult'.usedWords
      ]_vars

\* A story over a word list with repeated words was returned and rendered
\* with a highlighted word, its used words not in the order the pattern
\* sorts them into.
C14_Witness ==
    /\ genPc = "returned"
    /\ hlPc = "rendered"
    /\ \E i, j \in 1..Len(words) : i # j /\ words[i] = words[j]
    /\ sortedWords(usedWords) # usedWords
    /\ \E k \in 1..Len(segments) : segments[k].kind = "match"

-----------------------------------------------------------------------------
(* Claims about the read screen                                            *)

\* The step in which handleGenerateStory handles the throw of generateStory.
FailureHandled == genPc = "threw" /\ genPc' = "idle"

\* The step in which handleGenerateStory takes the result of generateStory.
SuccessHandled == genPc = "returned" /\ genPc' = "idle"

\* C15 as stated: every handleGenerateStory call issues exactly one request;
\* when generateStory throws it holds no result, and the screen then has an
\* error message set and displayed, the story displayed before and the saved
\* file unchanged, and isGenerating false so that the button is enabled
\* again.
C15_FailureSurfacesOnce ==
    [][/\ requests' = IF genPc' = "start" THEN attempts' - 1 ELSE attempts'
       /\ genPc' = "threw" => genResult' = Null
       /\ FailureHandled =>
             /\ error' # Null
             /\ errorDisplayed'
             /\ storyResult' = storyResult
             /\ savedFile' = savedFile
             /\ ~isGenerating'
             /\ generateButtonEnabled'
      ]_vars

\* A generation failed on the start view: the error is displayed there and
\* the button is enabled again.
C15_Witness ==
    /\ attempts = 1
    /\ genPc = "idle"
    /\ requests = 1
    /\ errorDisplayed
    /\ generateButtonEnabled

\* The file holds the JSON text of the result.
Holds(file, result) ==
    file # <<>> /\ file[1].kind = "json" /\ file[1].value = result

\* Both a displayed story and a saved story exist.
BothExist ==
    storyResult # <<>> /\ savedFile # <<>> /\ savedFile[1].kind = "json"

Synced == BothExist => savedFile[1].value = storyResult[1]

\* The step in which the mount effect parses what it read.
LoadParsed == loadPc = "read" /\ loadPc' = "done"

\* C20 as stated: a successful generation writes the StoryResult it
\* displays, on mount an existing saved story becomes the displayed story, an
\* absent file ends the load without an error, and whenever both exist the
\* displayed story is the saved one.
C20_DisplayedIsSaved ==
    [][/\ SuccessHandled =>
             storyResult' = <<genResult>> /\ Holds(savedFile', genResult)
       /\ LoadParsed /\ loadContent[1].kind = "json" =>
             storyResult' = <<loadContent[1].value>>
       /\ loadPc = "mount" /\ loadPc' # "mount" /\ savedFile = <<>> =>
             loadPc' = "done" /\ error' = error /\ storyResult' = storyResult
       /\ Synced'
      ]_vars

\* The part of C20 that holds: a successful generation displays its
\* StoryResult and writes it to lastStory.json unless the write fails, which
\* leaves the file as it was; on mount a saved story that was read becomes the displayed story, an
\* absent file ends the load without an error; and the displayed story stops
\* being the saved one only in a step where the write failed or where the
\* mount effect displays a text it read before a later generation was saved.
C20_DisplayedIsSavedUnlessWriteFails ==
    [][/\ SuccessHandled =>
             /\ storyResult' = <<genResult>>
             /\ savedFile' = savedFile \/ Holds(savedFile', genResult)
       /\ LoadParsed /\ loadContent[1].kind = "json" =>
             storyResult' = <<loadContent[1].value>>
       /\ loadPc = "mount" /\ loadPc' # "mount" /\ savedFile = <<>> =>
             loadPc' = "done" /\ error' = error /\ storyResult' = storyResult
       /\ Synced /\ ~Synced' =>
             \/ SuccessHandled /\ savedFile' = savedFile
             \/ LoadParsed /\ loadContent # savedFile
       /\ ~(SuccessHandled \/ LoadParsed) =>
             storyResult' = storyResult /\ savedFile' = savedFile
      ]_vars

\* The saved story was displayed on mount and then replaced, on the screen
\* and in the file, by a generated one.
C20_Witness ==
    /\ loadPc = "done"
    /\ loadContent = <<stringify(EarlierStory)>>
    /\ attempts = 1
    /\ genPc = "idle"
    /\ BothExist
    /\ savedFile[1].value = storyResult[1]
    /\ storyResult[1] # EarlierStory

-----------------------------------------------------------------------------
(* Claims about the vocabulary store                                       *)

\* The collection that holds exactly the words of a list.
collectionOf(list) == setWords({}, list)

\* The step in which the batch of importWords is committed.
Committed == importPc = "commit" /\ importPc' = "done"

\* A step of addWord, updateWord or deleteWord.
OtherWrite == writes' # writes

\* C16 as stated: an import whose reading or validation failed never reaches
\* the store; no step of the import other than the commit changes the
\* store; the commit leaves the collection equal to the imported list; and
\* the listener is handed the collection as it stands, so never a partly
\* replaced one.
C16_ImportAllOrNothing ==
    [][/\ impPc = "threw" => importPc' \notin {"commit", "done"}
       /\ ~Committed /\ ~OtherWrite => store' = store
       /\ Committed => store' = collectionOf(impResult)
       /\ snapshotDue /\ ~snapshotDue' /\ listener' = "attached" =>
             state'.words = snapshotWords(store, clock)
      ]_vars

\* The part of C16 that holds: the same, with the commit replacing the
\* collection by the imported list whenever the collection still holds
\* exactly the documents that get() returned.
C16_ReplacedUnlessWrittenMeanwhile ==
    [][/\ impPc = "threw" => importPc' \notin {"commit", "done"}
       /\ ~Committed /\ ~OtherWrite => store' = store
       /\ Committed /\ existingDocs = {d.id : d \in store} =>
             store' = collectionOf(impResult)
       /\ Committed =>
             /\ \A d \in store' \ collectionOf(impResult) :
                   d \in store /\ d.id \notin existingDocs
             /\ collectionOf(impResult) \subseteq store'
       /\ snapshotDue /\ ~snapshotDue' /\ listener' = "attached" =>
             state'.words = snapshotWords(store, clock)
      ]_vars

\* A collection of two documents was replaced by two imported words, one of
\* them under the id of an old document, and the listener was handed the new
\* collection.
C16_Witness ==
    /\ importPc = "done"
    /\ existingDocs = {"w1", "w3"}
    /\ Cardinality(store) = 2
    /\ store = collectionOf(impResult)
    /\ listener = "attached"
    /\ ~snapshotDue
    /\ Len(state.words) = 2
    /\ state.words = snapshotWords(store, clock)

\* The step in which the listener reports an error.
SubscriptionFailed == listener = "attached" /\ listener' = "closed"

\* C17: the subscription error sets an error and leaves state.words as it
\* was; an error that is set is never cleared, and the steps that dispatch
\* SET_WORDS or SET_LOADING leave it as it is.
C17_SubscriptionErrorPersists ==
    [][/\ SubscriptionFailed =>
             /\ state'.error # Null
             /\ state'.words = state.words
       /\ state.error # Null => state'.error # Null
       /\ state'.error # state.error =>
             /\ state'.words = state.words
             /\ ~state'.isLoading
      ]_vars

\* After the subscription error a refresh has dispatched SET_LOADING: the
\* error is still set and the words of the last snapshot are still held.
C17_Witness ==
    /\ listener = "closed"
    /\ state.error = "Failed to sync with database"
    /\ state.isLoading
    /\ refreshPc = "fetching"
    /\ state.words # <<>>

-----------------------------------------------------------------------------
(* Claims about the listen mode                                            *)

\* The call in slot c moves to a position in this step.
Enters(c, pc) == chains[c].pc # pc /\ chains'[c].pc = pc

\* C18: a call of playNextListenWord sets the phase 'portuguese' when it
\* starts, hands the Portuguese word to Speech before anything else, moves to
\* 'waiting' only when that utterance reports done, setting the 5-second
\* timer in that step, and sets the phase 'french' and hands the French
\* text of the same word to Speech only in the step in which that timer,
\* having run its 5 seconds, fires.
C18_PortugueseThenWaitThenFrench ==
    [][\A c \in Slots :
          /\ Enters(c, "voice") => listenPhase' = "portuguese"
          /\ Enters(c, "portuguese") =>
                /\ chains[c].pc = "voice"
                /\ chains'[c].word = chains[c].word
                /\ speechQueue' = Append(speechQueue, <<c, "portuguese">>)
          /\ Enters(c, "waiting") =>
                /\ chains[c].pc = "portuguese"
                /\ chains'[c].word = chains[c].word
                /\ Head(speechQueue) = <<c, "portuguese">>
                /\ chains'[c].timer = FrenchDelayMs
                /\ listenPhase' = "waiting"
          /\ chains[c].pc = "waiting" /\ chains'[c].pc = "waiting" =>
                \/ chains'[c].timer = chains[c].timer
                \/ chains'[c].timer = chains[c].timer - CountdownIntervalMs
          /\ Enters(c, "french") =>
                /\ chains[c].pc = "waiting"
                /\ chains[c].timer = 0
                /\ chains'[c].word = chains[c].word
                /\ listenPhase' = "french"
          /\ <<c, "french">> \in Elements(speechQueue')
             /\ <<c, "french">> \notin Elements(speechQueue) =>
                Enters(c, "french")
      ]_vars

\* The French translation of the word is being spoken, after its Portuguese
\* utterance and the wait.
C18_Witness ==
    /\ mode = "listen"
    /\ listenPhase = "french"
    /\ speechQueue # <<>>
    /\ Head(speechQueue)[2] = "french"
    /\ chains[Head(speechQueue)[1]].pc = "french"
    /\ chains[Head(speechQueue)[1]].word = <<ListenWords[1]>>

\* Listen mode is on and the French utterance of a word has finished.
FrenchFinished == mode = "listen" /\ \E c \in Slots : chains[c].pc = "pause"

\* A call of playNextListenWord has a word to speak.
WordPlayed == \E c \in Slots : chains[c].pc \in {"voice", "portuguese"}

\* C19 as stated: in listen mode, whenever the French utterance of a word
\* has finished, a next word is played later on unless listen mode is
\* stopped.
C19_AutoAdvance == FrenchFinished ~> (WordPlayed \/ mode # "listen")

\* Listen mode was started with a loaded vocabulary and the French
\* utterance of the first word has finished: the 2-second timer is pending.
C19_Witness ==
    /\ mode = "listen"
    /\ vocabulary # <<>>
    /\ \E c \in Slots : chains[c].pc = "pause" /\ chains[c].timer = NextDelayMs

-----------------------------------------------------------------------------
(* Claims about the article normalisation                                  *)

\* The place of an article in the longest-first scan.
scanPlace(article) ==
    CHOOSE k \in 1..Len(sortedArticles) : sortedArticles[k] = article

\* C21 as stated: one leading article is removed, and of two leading
\* articles only the first, so the second stays in front of the noun.
C21_SecondArticleKept ==
    normPc = "done" =>
        \A a, b \in ArticleSet :
            /\ normText = a \o Space \o Noun => normResult = Noun
            /\ normText = a \o Space \o b \o Space \o Noun =>
                  normResult = b \o Space \o Noun
            /\ normText = a \o Space \o Elision \o Noun =>
                  normResult = Elision \o Noun

\* C21 amended: the scan removes every article that stands at the start
\* when its turn comes; of two leading articles the second is removed too
\* when it comes later in the scan than the first or is l', and stays
\* otherwise; an l' attached to the noun is always removed.
C21_SecondArticleRemovedWhenLater ==
    normPc = "done" =>
        \A a, b \in ArticleSet :
            /\ normText = a \o Space \o Noun => normResult = Noun
            /\ normText = a \o Space \o b \o Space \o Noun =>
                  normResult =
                      IF scanPlace(b) > scanPlace(a) \/ b = Elision
                      THEN Noun ELSE b \o Space \o Noun
            /\ normText = a \o Space \o Elision \o Noun => normResult = Noun

\* 'les la x' was normalised.
C21_Witness ==
    /\ normPc = "done"
    /\ normText = <<"l", "e", "s", " ", "l", "a", " ", "x">>
    /\ normResult = Noun

-----------------------------------------------------------------------------
(* Claims about blank variants and verbatim answers                        *)

\* Some variant of correctAnswer that is non-empty after trimming accepts
\* the user's answer.
NonBlankVariantMatches ==
    \E k \in 1..Len(validAnswers(correctAnswer)) :
        /\ validAnswers(correctAnswer)[k] # <<>>
        /\ singleAnswerMatches(userAnswer, validAnswers(correctAnswer)[k])

\* The user's answer reduces to empty under the article stripping or the
\* accent folding of singleAnswerMatches.
AnswerReducesToEmpty ==
    \/ normalizeForComparison(userAnswer) = <<>>
    \/ removeAccents(toLowerCase(trim(userAnswer))) = <<>>
    \/ removeAccents(normalizeForComparison(userAnswer)) = <<>>

\* C22: a non-blank user answer is accepted only because of a variant of
\* correctAnswer that is non-empty after trimming; a blank variant never
\* matches it.
C22_BlankVariantNeverMatches ==
    matchPc = "done" /\ trim(userAnswer) # <<>> /\ matchResult
        => NonBlankVariantMatches

\* The part of C22 that holds: a blank variant never matches an answer that
\* does not reduce to empty.
C22_BlankVariantMatchesOnlyReducedAnswer ==
    matchPc = "done" /\ trim(userAnswer) # <<>> /\ matchResult
        /\ ~AnswerReducesToEmpty
        => NonBlankVariantMatches

\* The answer 'a' was accepted for 'b/', whose variants are 'b' and ''.
C22_Witness ==
    /\ matchPc = "done"
    /\ userAnswer = <<"a">>
    /\ correctAnswer = <<"b", "/">>
    /\ matchResult
    /\ ~NonBlankVariantMatches

\* The user's answer is, after trimming, a variant of correctAnswer that is
\* not blank.
TypedOneVariant ==
    /\ trim(userAnswer) # <<>>
    /\ \E k \in 1..Len(validAnswers(correctAnswer)) :
            validAnswers(correctAnswer)[k] = trim(userAnswer)

\* C28 as stated: the correct-answer field typed verbatim is accepted, for
\* every non-blank field, with or without '/'.
C28_VerbatimAccepted ==
    matchPc = "done" /\ userAnswer = correctAnswer
        /\ trim(correctAnswer) # <<>>
        => matchResult

\* C28 amended: the field typed verbatim is accepted exactly when it holds
\* no '/', and each of its non-blank variants typed alone is accepted.
C28_VerbatimAcceptedWithoutSlash ==
    /\ matchPc = "done" /\ userAnswer = correctAnswer
          /\ trim(correctAnswer) # <<>>
          => (matchResult <=> ~HasSlash(correctAnswer))
    /\ matchPc = "done" /\ TypedOneVariant => matchResult

\* 'a/b' was typed for the field 'a/b' and refused.
C28_Witness ==
    /\ matchPc = "done"
    /\ userAnswer = <<"a", "/", "b">>
    /\ correctAnswer = userAnswer
    /\ ~matchResult

-----------------------------------------------------------------------------
(* Claims about the resolution of the split pieces                         *)

\* The story was split and its pieces were mapped to segments.
PiecesMapped == hlPc = "rendered" /\ parts # <<>>

\* The used words whose portuguese equals the piece, case ignored.
wordsEqualTo(piece) ==
    {j \in 1..Len(usedWords) :
        toLowerCase(usedWords[j].portuguese) = toLowerCase(piece)}

\* The pieces the split took from the capturing group: every second one.
capturedPieces == {i \in 1..Len(parts) : i % 2 = 0}

\* C23: a piece is a match segment exactly when it equals, case ignored, the
\* portuguese of some used word, and then carries the french of the first
\* such word in usedWords order; every other piece is plain; every piece
\* the pattern matched is a match segment.
C23_SegmentResolution ==
    PiecesMapped =>
        /\ Len(segments) = Len(parts)
        /\ \A i \in 1..Len(parts) :
              /\ segments[i].text = parts[i]
              /\ segments[i].kind = "match" <=> wordsEqualTo(parts[i]) # {}
              /\ segments[i].kind # "match" =>
                    segments[i].kind = "plain" /\ segments[i].french = Null
              /\ segments[i].kind = "match" =>
                    \E j \in wordsEqualTo(parts[i]) :
                        /\ \A k \in wordsEqualTo(parts[i]) : j <= k
                        /\ segments[i].french = usedWords[j].french
        /\ \A i \in capturedPieces : segments[i].kind = "match"

\* The story 'aB' was rendered with the used words 'ab' (deux) and 'aB'
\* (trois), in this order: the piece 'aB' carries 'deux'.
C23_Witness ==
    /\ PiecesMapped
    /\ story = <<"a", "B">>
    /\ Len(usedWords) = 2
    /\ usedWords[1].french = "deux"
    /\ usedWords[2].french = "trois"
    /\ Len(segments) = 3
    /\ segments[2].kind = "match"
    /\ segments[2].french = "deux"

-----------------------------------------------------------------------------
(* Claims about leaving and skipping in listen mode                        *)

\* Nothing of the listen flow is pending: no setTimeout, no setInterval, no
\* utterance queued or being spoken.
NothingPending ==
    /\ \A c \in Slots : chains[c].timer = NoTimer
    /\ ~countdownRef.active
    /\ leakedIntervals = {}
    /\ speechQueue = <<>>

\* C24: once stopListenMode or the unmount cleanup has run, and until listen
\* mode is started again, no timeout or interval of the listen flow is
\* pending and no utterance has been requested.
C24_StopCancelsEverything ==
    mode # "listen" => NothingPending

\* stopListenMode or the cleanup runs while exactly the call that timerRef
\* and countdownRef know of is in progress, past its await.
StopsKnownCall ==
    /\ mode = "listen"
    /\ mode' # "listen"
    /\ leakedIntervals = {}
    /\ \A c \in Slots :
          /\ chains[c].pc # "voice"
          /\ chains[c].timer # NoTimer => timerRef = c

\* The part of C24 that holds: a stop that finds only the call the refs
\* know of, past its await, leaves nothing pending and no call in progress.
C24_StopCancelsKnownCall ==
    [][StopsKnownCall =>
            /\ NothingPending'
            /\ \A c \in Slots : chains'[c] = NoChain]_vars

\* Listen mode was left and an utterance was requested afterwards.
C24_Witness ==
    /\ mode = "select"
    /\ ~isListening
    /\ speechQueue # <<>>

\* The intervals that are running: the one countdownRef holds and the ones
\* it no longer holds.
runningIntervals ==
    (IF countdownRef.active THEN 1 ELSE 0) + Cardinality(leakedIntervals)

\* The calls of playNextListenWord whose 5-second timer is pending.
frenchTimers ==
    {c \in Slots : chains[c].pc = "waiting" /\ chains[c].timer # NoTimer}

\* C25: never two utterances requested and not yet finished or stopped,
\* never two 5-second timers, never two countdown intervals.
C25_OneRequestOutstanding ==
    /\ Len(speechQueue) <= 1
    /\ Cardinality(frenchTimers) <= 1
    /\ runningIntervals <= 1

\* At most one call of playNextListenWord is in progress, and no interval
\* of an earlier one is left.
OneCall ==
    /\ Cardinality({c \in Slots : chains[c].pc # "free"}) <= 1
    /\ leakedIntervals = {}

\* The part of C25 that holds: one call in progress has one utterance, one
\* timer and one interval at most.
C25_OneCallOneRequest ==
    OneCall =>
        /\ Len(speechQueue) <= 1
        /\ Cardinality({c \in Slots : chains[c].timer # NoTimer}) <= 1
        /\ runningIntervals <= 1
        /\ speechQueue # <<>> =>
              \A c \in Slots : chains[c].timer = NoTimer

\* In listen mode two utterances are requested and neither has finished.
C25_Witness ==
    /\ mode = "listen"
    /\ Len(speechQueue) = 2
    /\ speechQueue[1][1] # speechQueue[2][1]

-----------------------------------------------------------------------------
(* Claims about the countdown                                              *)

\* playNextListenWord has taken a word.
WordStarts ==
    \E c \in Slots : chains[c].pc # "voice" /\ chains'[c].pc = "voice"

\* onDone of a Portuguese utterance has run.
WaitingBegins ==
    \E c \in Slots : chains[c].pc = "portuguese" /\ chains'[c].pc = "waiting"

\* An interval period has passed with the interval of countdownRef running.
IntervalTicks ==
    /\ countdownRef.active
    /\ countdownRef' # countdownRef
    /\ UNCHANGED <<speechQueue, mode>>
    /\ \A c \in Slots : chains'[c].pc = chains[c].pc

\* What a step does to the countdown state.
CountdownStep ==
    /\ countdown' \in {countdown, countdown - 1, CountdownStart}
    /\ WordStarts => countdown' = CountdownStart
    /\ WaitingBegins => countdown' = CountdownStart
    /\ IntervalTicks => countdown' = countdown - 1

\* C30: the countdown is always between 0 and 5; it is 5 when a word starts
\* and when the waiting begins, one less after each tick of the interval,
\* and never changes in another way.
C30_CountdownBounds ==
    /\ [](countdown \in 0..CountdownStart)
    /\ [][CountdownStep]_vars

\* The part of C30 that holds: with no interval left over from an earlier
\* call the countdown is between 0 and 5, and while one call is in progress
\* it changes as stated.
C30_CountdownBoundsOneCall ==
    /\ [](leakedIntervals = {} => countdown \in 0..CountdownStart)
    /\ [][OneCall /\ OneCall' => CountdownStep]_vars

\* The waiting view displays a negative countdown.
C30_Witness ==
    /\ mode = "listen"
    /\ listenWord # <<>>
    /\ listenPhase = "waiting"
    /\ countdown < 0

-----------------------------------------------------------------------------
(* Claims about the quiz                                                   *)

\* The answer text is empty or only whitespace.
BlankAnswer == \A k \in 1..Len(userAnswer) : userAnswer[k] \in Whitespace

\* The text the answer is compared with: the french of the word when its
\* Portuguese side is shown, its portuguese otherwise.
target ==
    IF showPortuguese THEN currentWord[1].french
    ELSE currentWord[1].portuguese

\* C26: checkAnswer changes nothing of the quiz state when the answer is
\* blank or there is no current word; otherwise it sets isAnswered and sets
\* isCorrect to the matcher's verdict on the answer and the target, and
\* leaves the word, the side and the answer text.
C26_CheckAnswerGated ==
    [][/\ checkAnswer([quizState EXCEPT !.currentWord = <<>>])
              = [quizState EXCEPT !.currentWord = <<>>]
       /\ QuizCheckAnswer =>
             IF BlankAnswer
             THEN UNCHANGED <<currentWord, showPortuguese, userAnswer,
                              isAnswered, isCorrect>>
             ELSE /\ isAnswered'
                  /\ isCorrect' = answersMatch(userAnswer, target)
                  /\ UNCHANGED <<currentWord, showPortuguese, userAnswer>>
      ]_vars

\* The French side of 'o a' is shown and the answer 'a' was accepted.
C26_Witness ==
    /\ mode = "quiz"
    /\ currentWord = <<QuizWords[1]>>
    /\ ~showPortuguese
    /\ userAnswer = <<"a">>
    /\ isAnswered
    /\ isCorrect

\* The step is startQuiz on a vocabulary that is not empty.
NextQuestion ==
    /\ currentWord' # <<>>
    /\ userAnswer' = <<>>
    /\ ~isAnswered'
    /\ ~isCorrect'

\* C27 as stated: isCorrect implies isAnswered, and from the answer on the
\* verdict, the answer text and the word change only by startQuiz, which
\* resets the text and both flags.
C27_VerdictFixedUntilNextWord ==
    /\ [](isCorrect => isAnswered)
    /\ [][isAnswered =>
              \/ UNCHANGED <<currentWord, userAnswer, isAnswered, isCorrect>>
              \/ NextQuestion]_vars

\* C27 amended: the same, except that goBackToSelect discards the word and
\* leaves the answer text and both flags as they are.
C27_VerdictFixedUntilNextWordOrBack ==
    /\ [](isCorrect => isAnswered)
    /\ [][isAnswered =>
              \/ UNCHANGED <<currentWord, userAnswer, isAnswered, isCorrect>>
              \/ NextQuestion
              \/ /\ mode = "quiz" /\ mode' = "select"
                 /\ currentWord' = <<>>
                 /\ UNCHANGED <<userAnswer, isAnswered, isCorrect>>]_vars

\* An answered question was left with the back button: the flags and the
\* answer text are those of the question, the word is gone.
C27_Witness ==
    /\ mode = "select"
    /\ isAnswered
    /\ isCorrect
    /\ userAnswer # <<>>
    /\ currentWord = <<>>

-----------------------------------------------------------------------------
(* Claims about the freshness of the vocabulary state                      *)

\* The ids and texts of a list of words, in order.
textsOf(list) ==
    [k \in 1..Len(list) |->
        <<list[k].id, list[k].portuguese, list[k].french>>]

\* state.words is the collection as it stands.
StateFresh == textsOf(state.words) = textsOf(snapshotWords(store, clock))

\* A snapshot, a result of getAllWords or an error is processed.
Processed ==
    \/ snapshotDue /\ ~snapshotDue' /\ listener' = "attached"
    \/ listener = "attached" /\ listener' = "closed"
    \/ refreshPc # "idle" /\ refreshPc' = "idle"

\* C29: while the listener is attached and has delivered every change,
\* state.words is the collection as it stands, whatever results of
\* getAllWords have arrived meanwhile; and isLoading is false after every
\* snapshot, result or error that is processed.
C29_WordsAreNewest ==
    /\ [](listener = "attached" /\ ~snapshotDue => StateFresh)
    /\ [][Processed => ~state'.isLoading]_vars

\* The part of C29 that holds: the same, as long as no result of
\* getAllWords that differs from the collection is on its way or has been
\* processed since the last snapshot.
C29_WordsAreNewestUnlessStaleFetch ==
    [][/\ (/\ listener' = "attached" /\ ~snapshotDue'
           /\ StateFresh \/ snapshotDue
           /\ ~(refreshPc = "resolving" /\ refreshPc' = "idle"
                   /\ fetchedDocs # store))
          => StateFresh'
       /\ Processed => ~state'.isLoading]_vars

\* The listener has delivered the collection with the added word, and the
\* state holds the older result of getAllWords, without that word.
C29_Witness ==
    /\ listener = "attached"
    /\ ~snapshotDue
    /\ refreshPc = "idle"
    /\ \E d \in store : d.id = "n1"
    /\ \A k \in 1..Len(state.words) : state.words[k].id # "n1"
    /\ ~state.isLoading

=============================================================================
